---- MODULE Spec2Model ----
(***************************************************************************)
(* A model of coinglass-mcp: the Access Gate (check_plan, check_interval,  *)
(* check_params over the static tables of config.py), the tool bodies of   *)
(* server.py (which gate checks each runs, in which order, and the         *)
(* parameter bag it hands to the client) and CoinGlassClient.request with  *)
(* its tenacity retry policy (client.py).                                  *)
(***************************************************************************)
EXTENDS Integers, Sequences, FiniteSets, TLC

VARIABLES
    plan,      \* lifespan_context["plan"]: the session's plan string
    pc,        \* where the current tool invocation is: idle, inflight, backoff, done
    call,      \* the current invocation: tool, action, args
    rest,      \* the statements of the tool body still to run after the await
    attempts,  \* HTTP attempts made by the current invocation (mock_http.get calls)
    reqs,      \* the requests handed to http.get by the current invocation, in order
    outs,      \* what the upstream answered to each attempt so far, in order
    waits,     \* the backoff sleeps of the current invocation, in order
    lastExc,   \* the exception of the latest failed attempt
    payload,   \* what client.request returned to the tool body
    session,   \* lifespan_context["client"]: api_key and base_url of the shared client
    result,    \* how the invocation ended: a returned envelope or a raised error
    gres,      \* the latest direct call of a gate helper and what it did
    tasks      \* the invocations of client.request that run at the same time, by task

vars == <<plan, session, pc, call, rest, attempts, reqs, outs, waits, lastExc, payload, result, gres,
          tasks>>

-----------------------------------------------------------------------------
(* Python values that travel as tool arguments and query parameters:       *)
(* None, strings and integers (server.py's Annotated types).  Absent marks *)
(* a key that a dict does not hold.                                        *)

None == [ty |-> "none", s |-> "", n |-> 0]
Absent == [ty |-> "absent", s |-> "", n |-> 0]
Str(x) == [ty |-> "str", s |-> x, n |-> 0]
Num(k) == [ty |-> "int", s |-> "", n |-> k]

\* Python truthiness, as `not kwargs.get(p)`, `if symbol`, `if interval` use it.
Truthy(v) ==
    CASE v.ty = "str" -> v.s # ""
      [] v.ty = "int" -> v.n # 0
      [] OTHER -> FALSE

\* The parameter names that occur as keys of a kwargs or query dict.
Keys == {"symbol", "exchange", "pair", "interval", "range", "limit", "side",
         "user", "page", "type", "asset", "ticker", "region", "fund"}

EmptyBag == [k \in Keys |-> Absent]

\* dict.get(k): None when the key is absent.
Get(bag, k) == IF bag[k] = Absent THEN None ELSE bag[k]

KeysOf(bag) == {k \in Keys : bag[k] # Absent}

-----------------------------------------------------------------------------
(* config.py *)

TIMEOUT == 30

BASE_URL == "https://open-api-v4.coinglass.com"

Plan == {"hobbyist", "startup", "standard", "professional", "enterprise"}

PLAN_HIERARCHY ==
    [p \in Plan |->
        CASE p = "hobbyist" -> 0
          [] p = "startup" -> 1
          [] p = "standard" -> 2
          [] p = "professional" -> 3
          [] p = "enterprise" -> 4]

AllIntervals == {"m1", "m5", "m15", "m30", "h1", "h4", "h8", "h12", "d1", "w1"}

PLAN_INTERVALS ==
    [p \in Plan |->
        CASE p = "hobbyist" -> {"h4", "h8", "h12", "d1", "w1"}
          [] p = "startup" -> {"m30", "h1", "h4", "h8", "h12", "d1", "w1"}
          [] p = "standard" -> AllIntervals
          [] p = "professional" -> AllIntervals
          [] p = "enterprise" -> AllIntervals]

ACTION_PLAN ==
    [a \in {"orders", "pair_heatmap", "coin_heatmap", "pair_map", "coin_map",
            "alerts", "positions", "all_positions"} |->
        CASE a = "orders" -> "standard"
          [] a \in {"pair_heatmap", "coin_heatmap", "pair_map", "coin_map"} -> "professional"
          [] OTHER -> "startup"]

ACTION_PARAMS ==
    [a \in {"pair", "aggregated", "stablecoin", "coin_margin", "by_exchange",
            "exchange_chart", "oi_weighted", "vol_weighted", "global",
            "top_accounts", "top_positions", "price_history"} |->
        CASE a \in {"pair", "global", "top_accounts", "top_positions"} -> <<"exchange", "pair">>
          [] a = "price_history" -> <<"exchange", "pair", "interval">>
          [] OTHER -> <<"symbol">>]

-----------------------------------------------------------------------------
(* Exceptions.  exc is the Python class, why tells the raising statement   *)
(* apart, status is the HTTP status of an httpx.HTTPStatusError, and cause *)
(* is the class of the exception a tenacity.RetryError wraps.              *)

NoExc == [exc |-> "none", why |-> "", status |-> 0, cause |-> ""]
Exc(e, w) == [exc |-> e, why |-> w, status |-> 0, cause |-> ""]
HTTPStatusError(st) == [exc |-> "HTTPStatusError", why |-> "raise_for_status", status |-> st, cause |-> ""]

-----------------------------------------------------------------------------
(* server.py: the Access Gate.  Each check yields the exception it raises, *)
(* NoExc when it returns normally.                                         *)

Rank_default_standard(p) ==
    IF p \in DOMAIN PLAN_HIERARCHY THEN PLAN_HIERARCHY[p] ELSE PLAN_HIERARCHY["standard"]

\* PLAN_HIERARCHY.get(p, 0)
Rank(p) == IF p \in DOMAIN PLAN_HIERARCHY THEN PLAN_HIERARCHY[p] ELSE 0

check_plan_le(p, action) ==
    IF action \in DOMAIN ACTION_PLAN /\ Rank(p) <= Rank(ACTION_PLAN[action])
    THEN Exc("ValueError", "plan")
    ELSE NoExc

check_plan_reversed(p, action) ==
    IF action \in DOMAIN ACTION_PLAN /\ Rank(p) > Rank(ACTION_PLAN[action])
    THEN Exc("ValueError", "plan")
    ELSE NoExc

check_plan(p, action) ==
    IF action \in DOMAIN ACTION_PLAN /\ Rank(p) < Rank(ACTION_PLAN[action])
    THEN Exc("ValueError", "plan")
    ELSE NoExc

\* PLAN_INTERVALS.get(p, set())
Allowed(p) == IF p \in DOMAIN PLAN_INTERVALS THEN PLAN_INTERVALS[p] ELSE {}

\* interval is a Python value: only a string can be a member of the set.
check_interval_open(p, interval) ==
    IF p \in DOMAIN PLAN_INTERVALS /\ ~(interval.ty = "str" /\ interval.s \in PLAN_INTERVALS[p])
    THEN Exc("ValueError", "interval")
    ELSE NoExc

check_interval(p, interval) ==
    IF ~(interval.ty = "str" /\ interval.s \in Allowed(p))
    THEN Exc("ValueError", "interval")
    ELSE NoExc

\* ACTION_PARAMS.get(action, [])
Required(action) == IF action \in DOMAIN ACTION_PARAMS THEN ACTION_PARAMS[action] ELSE <<>>

\* missing = [p for p in required if not kwargs.get(p)]
Missing(action, kwargs) ==
    SelectSeq(Required(action), LAMBDA p : ~Truthy(Get(kwargs, p)))

check_params_none_only(action, kwargs) ==
    IF \E i \in 1..Len(Required(action)) : Get(kwargs, Required(action)[i]) = None
    THEN Exc("ValueError", "params")
    ELSE NoExc

check_params(action, kwargs) ==
    IF Missing(action, kwargs) # <<>>
    THEN Exc("ValueError", "params")
    ELSE NoExc

-----------------------------------------------------------------------------
(* server.py: the tool bodies.  A body is the sequence of the statements   *)
(* it runs, in source order: gate checks, a tool-level raise, the awaited  *)
(* client.request and the return of ok(...).                               *)

\* The names of the keyword arguments the tools pass to ok() as **meta.
MetaKeys == {"total", "total_matches", "symbol", "exchange", "pair", "interval", "range",
             "side", "model", "page", "market", "asset", "ticker", "fund", "plan"}

NoMeta == [k \in MetaKeys |-> Absent]

\* total=len(data) if isinstance(data, list) else None: known at the return.
LenOfData == [ty |-> "len", s |-> "", n |-> 0]
\* plan=plan, with plan = get_plan(ctx)
PlanOfSession == [ty |-> "plan", s |-> "", n |-> 0]

\* Python's `a or b`
Or(a, b) == IF Truthy(a) THEN a ELSE b

\* how names the expression a return hands to ok() as data: the payload of
\* client.request ("data") or what the tool derives or builds itself.
NoStmt == [op |-> "", action |-> "", val |-> None, bag |-> EmptyBag, given |-> FALSE, endpoint |-> "",
           how |-> "data", meta |-> NoMeta]
CheckPlan(a) == [NoStmt EXCEPT !.op = "check_plan", !.action = a]
CheckInterval(v) == [NoStmt EXCEPT !.op = "check_interval", !.val = v]
CheckParams(a, kwargs) == [NoStmt EXCEPT !.op = "check_params", !.action = a, !.bag = kwargs]
Raise(why) == [NoStmt EXCEPT !.op = "raise", !.action = why]
\* client.request(endpoint, params): given is FALSE when params is None or omitted.
Request(ep, params) == [NoStmt EXCEPT !.op = "request", !.endpoint = ep, !.bag = params, !.given = TRUE]
RequestNoParams(ep) == [NoStmt EXCEPT !.op = "request", !.endpoint = ep]
\* return ok(a, <how>, **meta)
ReturnAs(a, how, meta) == [NoStmt EXCEPT !.op = "return", !.action = a, !.how = how, !.meta = meta]
Return(a, meta) == ReturnAs(a, "data", meta)
\* `return data`, the last statement of client.request
ReturnData == [NoStmt EXCEPT !.op = "return_data"]

ArgNames == {"symbol", "exchange", "pair", "interval", "range", "limit", "side", "user",
             "page", "model", "market", "asset", "ticker", "region", "fund",
             "transfer_type", "query"}

NoArgs == [f \in ArgNames |-> Absent]

\* {"exchange": exchange, "symbol": pair, "interval": interval, "limit": limit}
PairParams(args) ==
    [EmptyBag EXCEPT !["exchange"] = args.exchange, !["symbol"] = args.pair,
                     !["interval"] = args.interval, !["limit"] = args.limit]

\* {"symbol": symbol, "interval": interval, "limit": limit}
CoinParams(args) ==
    [EmptyBag EXCEPT !["symbol"] = args.symbol, !["interval"] = args.interval,
                     !["limit"] = args.limit]

\* symbol=symbol, exchange=exchange, pair=pair
GateKwargs(args) ==
    [EmptyBag EXCEPT !["symbol"] = args.symbol, !["exchange"] = args.exchange,
                     !["pair"] = args.pair]

\* params = {"symbol": symbol} if symbol else None
SymbolRequest(ep, args) ==
    IF Truthy(args.symbol)
    THEN Request(ep, [EmptyBag EXCEPT !["symbol"] = args.symbol])
    ELSE RequestNoParams(ep)

\* pairs: if exchange and isinstance(data, dict): data = {exchange: data.get(exchange, [])}
\* exchanges: exchanges = list(data.keys()) if isinstance(data, dict) else []
coinglass_market_info(action, args) ==
    CASE action = "coins" ->
            << RequestNoParams("/api/futures/supported-coins"),
               Return(action, [NoMeta EXCEPT !["total"] = LenOfData]) >>
      [] action = "pairs" ->
            << RequestNoParams("/api/futures/supported-exchange-pairs"),
               ReturnAs(action, IF Truthy(args.exchange) THEN "only" ELSE "data",
                        [NoMeta EXCEPT !["exchange"] = args.exchange]) >>
      [] OTHER ->
            << RequestNoParams("/api/futures/supported-exchange-pairs"),
               ReturnAs(action, "keys", [NoMeta EXCEPT !["total"] = LenOfData]) >>

coinglass_market_data(action, args) ==
    (IF action = "coins_summary" /\ ~Truthy(args.symbol) THEN << Raise("symbol") >> ELSE << >>)
    \o << SymbolRequest(CASE action = "coins_summary" -> "/api/futures/coins-markets"
                          [] action = "pairs_summary" -> "/api/futures/pairs-markets"
                          [] OTHER -> "/futures/price-change-list", args),
          Return(action,
          [NoMeta EXCEPT !["symbol"] = args.symbol, !["total"] = LenOfData]) >>

coinglass_price_history_check_late(action, args) ==
    << Request("/api/price/ohlc-history", PairParams(args)),
       CheckInterval(args.interval),
       Return("price_history",
          [NoMeta EXCEPT !["exchange"] = args.exchange, !["pair"] = args.pair, !["interval"] = args.interval, !["total"] = LenOfData]) >>

coinglass_price_history(action, args) ==
    << CheckInterval(args.interval),
       Request("/api/price/ohlc-history", PairParams(args)),
       Return("price_history",
          [NoMeta EXCEPT !["exchange"] = args.exchange, !["pair"] = args.pair, !["interval"] = args.interval, !["total"] = LenOfData]) >>

coinglass_oi_history_params_first(action, args) ==
    << CheckParams(action, GateKwargs(args)),
       CheckInterval(args.interval),
       Request(CASE action = "pair" -> "/api/futures/openInterest/ohlc-history"
                 [] action = "aggregated" -> "/api/futures/openInterest/ohlc-aggregated-history"
                 [] action = "stablecoin" -> "/api/futures/openInterest/ohlc-aggregated-stablecoin"
                 [] OTHER -> "/api/futures/openInterest/ohlc-aggregated-coin-margin-history",
               IF action = "pair" THEN PairParams(args) ELSE CoinParams(args)),
       Return(action,
          [NoMeta EXCEPT !["symbol"] = Or(args.symbol, args.pair), !["exchange"] = args.exchange, !["interval"] = args.interval, !["total"] = LenOfData]) >>

coinglass_oi_history(action, args) ==
    << CheckInterval(args.interval),
       CheckParams(action, GateKwargs(args)),
       Request(CASE action = "pair" -> "/api/futures/openInterest/ohlc-history"
                 [] action = "aggregated" -> "/api/futures/openInterest/ohlc-aggregated-history"
                 [] action = "stablecoin" -> "/api/futures/openInterest/ohlc-aggregated-stablecoin"
                 [] OTHER -> "/api/futures/openInterest/ohlc-aggregated-coin-margin-history",
               IF action = "pair" THEN PairParams(args) ELSE CoinParams(args)),
       Return(action,
          [NoMeta EXCEPT !["symbol"] = Or(args.symbol, args.pair), !["exchange"] = args.exchange, !["interval"] = args.interval, !["total"] = LenOfData]) >>

coinglass_oi_distribution(action, args) ==
    << CheckParams(action, [EmptyBag EXCEPT !["symbol"] = args.symbol, !["range"] = args.range]),
       IF action = "by_exchange"
       THEN Request("/api/futures/openInterest/exchange-list",
                    [EmptyBag EXCEPT !["symbol"] = args.symbol])
       ELSE Request("/api/futures/openInterest/exchange-history-chart",
                    [EmptyBag EXCEPT !["symbol"] = args.symbol, !["range"] = args.range]),
       Return(action,
          [NoMeta EXCEPT !["symbol"] = args.symbol, !["range"] = args.range]) >>

coinglass_funding_history(action, args) ==
    << CheckInterval(args.interval),
       CheckParams(action, GateKwargs(args)),
       Request(CASE action = "pair" -> "/api/futures/fundingRate/ohlc-history"
                 [] action = "oi_weighted" -> "/api/futures/fundingRate/oi-weight-ohlc-history"
                 [] OTHER -> "/api/futures/fundingRate/vol-weight-ohlc-history",
               IF action = "pair" THEN PairParams(args) ELSE CoinParams(args)),
       Return(action,
          [NoMeta EXCEPT !["symbol"] = Or(args.symbol, args.pair), !["interval"] = args.interval, !["total"] = LenOfData]) >>

coinglass_funding_current(action, args) ==
    << SymbolRequest(CASE action = "rates" -> "/api/futures/fundingRate/exchange-list"
                       [] action = "accumulated" -> "/api/futures/fundingRate/accumulated-exchange-list"
                       [] OTHER -> "/api/futures/fundingRate/arbitrage", args),
       Return(action,
          [NoMeta EXCEPT !["symbol"] = args.symbol]) >>

coinglass_long_short(action, args) ==
    << CheckInterval(args.interval),
       Request(CASE action = "global" -> "/api/futures/global-long-short-account-ratio/history"
                 [] action = "top_accounts" -> "/api/futures/top-long-short-account-ratio/history"
                 [] action = "top_positions" -> "/api/futures/top-long-short-position-ratio/history"
                 [] OTHER -> "/api/futures/taker-buy-sell-volume/exchange-list",
               PairParams(args)),
       Return(action,
          [NoMeta EXCEPT !["exchange"] = args.exchange, !["pair"] = args.pair, !["interval"] = args.interval, !["total"] = LenOfData]) >>

coinglass_liq_history(action, args) ==
    << CheckInterval(args.interval),
       Request(CASE action = "pair" -> "/api/futures/liquidation/history"
                 [] action = "aggregated" -> "/api/futures/liquidation/aggregated-history"
                 [] action = "by_coin" -> "/api/futures/liquidation/coin-list"
                 [] OTHER -> "/api/futures/liquidation/exchange-list",
               CASE action = "pair" -> PairParams(args)
                 [] action = "aggregated" -> CoinParams(args)
                 [] OTHER -> EmptyBag),
       Return(action,
          [NoMeta EXCEPT !["symbol"] = Or(args.symbol, args.pair)]) >>

coinglass_liq_orders(action, args) ==
    << CheckPlan("orders"),
       Request("/api/futures/liquidation/order",
               [EmptyBag EXCEPT !["symbol"] = args.symbol, !["side"] = args.side,
                                !["limit"] = args.limit]),
       Return("orders",
          [NoMeta EXCEPT !["symbol"] = args.symbol, !["side"] = args.side]) >>

\* model is drawn from {1}: the f-string endpoints are written for model 1.
coinglass_liq_heatmap(action, args) ==
    << CheckPlan(action),
       Request(CASE action = "pair_heatmap" -> "/api/futures/liquidation/heatmap/model1"
                 [] action = "coin_heatmap" -> "/api/futures/liquidation/aggregated-heatmap/model1"
                 [] action = "pair_map" -> "/api/futures/liquidation/map"
                 [] OTHER -> "/api/futures/liquidation/aggregated-map",
               IF action \in {"pair_heatmap", "pair_map"}
               THEN [EmptyBag EXCEPT !["exchange"] = args.exchange, !["symbol"] = args.pair,
                                     !["range"] = args.range]
               ELSE [EmptyBag EXCEPT !["symbol"] = args.symbol, !["range"] = args.range]),
       Return(action,
          [NoMeta EXCEPT !["symbol"] = Or(args.symbol, args.pair), !["range"] = args.range, !["model"] = args.model]) >>

coinglass_ob_history(action, args) ==
    << CheckInterval(args.interval),
       Request(CASE action = "pair_depth" -> "/api/futures/orderbook/ask-bids-history"
                 [] action = "coin_depth" -> "/api/futures/orderbook/aggregated-ask-bids-history"
                 [] OTHER -> "/api/futures/orderbook/history",
               IF action = "pair_depth"
               THEN [PairParams(args) EXCEPT !["range"] = args.range]
               ELSE [CoinParams(args) EXCEPT !["range"] = args.range]),
       Return(action,
          [NoMeta EXCEPT !["symbol"] = Or(args.symbol, args.pair), !["interval"] = args.interval, !["range"] = args.range]) >>

coinglass_ob_large_orders(action, args) ==
    << Request(IF action = "current" THEN "/api/futures/orderbook/large-limit-order"
               ELSE "/api/futures/orderbook/large-limit-order-history",
               [EmptyBag EXCEPT !["exchange"] = args.exchange, !["symbol"] = args.pair,
                                !["limit"] = args.limit]),
       Return(action,
          [NoMeta EXCEPT !["exchange"] = args.exchange, !["pair"] = args.pair]) >>

coinglass_whale_positions(action, args) ==
    << CheckPlan(action),
       Request(CASE action = "alerts" -> "/api/hyperliquid/whale-alert"
                 [] action = "positions" -> "/api/hyperliquid/whale-position"
                 [] OTHER -> "/api/hyperliquid/position",
               [EmptyBag EXCEPT !["symbol"] = args.symbol, !["user"] = args.user,
                                !["page"] = args.page]),
       Return(action,
          [NoMeta EXCEPT !["symbol"] = args.symbol, !["page"] = args.page]) >>

coinglass_bitfinex_longs_shorts(action, args) ==
    << Request("/api/bitfinex-margin-long-short", [EmptyBag EXCEPT !["symbol"] = args.symbol]),
       Return("bitfinex_margin",
          [NoMeta EXCEPT !["symbol"] = args.symbol]) >>

coinglass_taker(action, args) ==
    << CheckInterval(args.interval),
       Request(CASE action = "pair_history" /\ args.market = Str("futures") -> "/api/futures/taker-buy-sell-volume/history"
                 [] action = "pair_history" -> "/api/spot/taker-buy-sell-volume/history"
                 [] action = "coin_history" /\ args.market = Str("futures") -> "/api/futures/aggregated-taker-buy-sell-volume/history"
                 [] action = "coin_history" -> "/api/spot/aggregated-taker-buy-sell-volume/history"
                 [] args.market = Str("futures") -> "/api/futures/taker-buy-sell-volume/exchange-list"
                 [] OTHER -> "/api/spot/taker-buy-sell-volume/exchange-list",
               IF action = "pair_history" THEN PairParams(args) ELSE CoinParams(args)),
       Return(action,
          [NoMeta EXCEPT !["symbol"] = Or(args.symbol, args.pair), !["market"] = args.market, !["interval"] = args.interval]) >>

coinglass_spot(action, args) ==
    (IF action = "price_history" /\ Truthy(args.interval)
     THEN << CheckInterval(args.interval) >> ELSE << >>)
    \o << Request(CASE action = "coins" -> "/api/spot/supported-coins"
                    [] action = "pairs" -> "/api/spot/supported-exchange-pairs"
                    [] action = "coins_markets" -> "/api/spot/coins-markets"
                    [] action = "pairs_markets" -> "/api/spot/pairs-markets"
                    [] OTHER -> "/api/price/ohlc-history",
                  IF action = "price_history" THEN PairParams(args) ELSE EmptyBag),
          Return(action,
          [NoMeta EXCEPT !["symbol"] = args.symbol, !["exchange"] = args.exchange]) >>

coinglass_options(action, args) ==
    << Request(CASE action = "max_pain" -> "/api/option/max-pain"
                 [] action = "info" -> "/api/option/info"
                 [] action = "oi_history" -> "/api/option/exchange-oi-history"
                 [] OTHER -> "/api/option/exchange-vol-history",
               IF Truthy(args.range)
               THEN [EmptyBag EXCEPT !["symbol"] = args.symbol, !["range"] = args.range]
               ELSE [EmptyBag EXCEPT !["symbol"] = args.symbol]),
       Return(action,
          [NoMeta EXCEPT !["symbol"] = args.symbol, !["range"] = args.range]) >>

coinglass_onchain(action, args) ==
    << Request(CASE action = "assets" -> "/api/exchange/assets"
                 [] action = "balance_list" -> "/api/exchange/balance/list"
                 [] action = "balance_chart" -> "/api/exchange/balance/chart"
                 [] OTHER -> "/api/exchange/chain/tx/list",
               [EmptyBag EXCEPT !["exchange"] = args.exchange, !["asset"] = args.asset,
                                !["range"] = args.range, !["type"] = args.transfer_type,
                                !["limit"] = args.limit]),
       Return(action,
          [NoMeta EXCEPT !["exchange"] = args.exchange, !["asset"] = args.asset]) >>

\* asset is drawn from {"bitcoin"}: the f-string endpoints are written for it.
coinglass_etf(action, args) ==
    << Request(CASE action = "list" -> "/api/etf/bitcoin/list"
                 [] action = "flows" -> "/api/etf/bitcoin/flow-history"
                 [] action = "net_assets" -> "/api/etf/bitcoin/net-assets/history"
                 [] action = "premium" -> "/api/etf/bitcoin/premium-discount/history"
                 [] action = "detail" -> "/api/etf/bitcoin/detail"
                 [] OTHER -> "/api/etf/bitcoin/price/history",
               [EmptyBag EXCEPT !["ticker"] = args.ticker, !["region"] = args.region,
                                !["interval"] = args.interval, !["limit"] = args.limit]),
       Return(action,
          [NoMeta EXCEPT !["asset"] = args.asset, !["ticker"] = args.ticker]) >>

coinglass_grayscale(action, args) ==
    << Request(IF action = "holdings" THEN "/api/grayscale/holdings-list"
               ELSE "/api/grayscale/premium-history",
               [EmptyBag EXCEPT !["fund"] = args.fund, !["range"] = args.range]),
       Return(action,
          [NoMeta EXCEPT !["fund"] = args.fund, !["range"] = args.range]) >>

IndicatorActions ==
    {"rsi", "basis", "coinbase_premium", "fear_greed", "ahr999", "puell", "stock_flow",
     "pi_cycle", "rainbow", "bubble", "ma_2year", "ma_200week", "profitable_days",
     "stablecoin_mcap", "bull_peak", "borrow_rate"}

IndicatorEndpoint(action) ==
    CASE action = "rsi" -> "/api/futures/rsi/list"
      [] action = "basis" -> "/api/futures/basis/history"
      [] action = "coinbase_premium" -> "/api/coinbase-premium-index"
      [] action = "fear_greed" -> "/api/index/fear-greed-history"
      [] action = "ahr999" -> "/api/index/ahr999"
      [] action = "puell" -> "/api/index/puell-multiple"
      [] action = "stock_flow" -> "/api/index/stock-flow"
      [] action = "pi_cycle" -> "/api/index/pi-cycle-indicator"
      [] action = "rainbow" -> "/api/index/bitcoin/rainbow-chart"
      [] action = "bubble" -> "/api/index/bitcoin/bubble-index"
      [] action = "ma_2year" -> "/api/index/2-year-ma-multiplier"
      [] action = "ma_200week" -> "/api/index/200-week-moving-average-heatmap"
      [] action = "profitable_days" -> "/api/index/bitcoin/profitable-days"
      [] action = "stablecoin_mcap" -> "/api/index/stableCoin-marketCap-history"
      [] action = "bull_peak" -> "/api/bull-market-peak-indicator"
      [] OTHER -> "/api/borrow-interest-rate/history"

coinglass_indicators(action, args) ==
    << Request(IndicatorEndpoint(action),
               [EmptyBag EXCEPT !["symbol"] = args.symbol, !["exchange"] = args.exchange,
                                !["interval"] = args.interval, !["range"] = args.range,
                                !["limit"] = args.limit]),
       Return(action,
          [NoMeta EXCEPT !["symbol"] = args.symbol]) >>

\* len(matches) for the queries the model draws: the number of tools of
\* tools_info with a keyword that occurs in the query.
SearchMatches(query) ==
    CASE query = Str("liquidation") -> 3
      [] query = Str("whale") -> 2
      [] OTHER -> 0

coinglass_search(action, args) ==
    << ReturnAs("search", "search",
                [NoMeta EXCEPT !["total_matches"] = Num(SearchMatches(args.query))]) >>

coinglass_config(action, args) ==
    << ReturnAs(action, "config", [NoMeta EXCEPT !["plan"] = PlanOfSession]) >>

-----------------------------------------------------------------------------
(* The tools, their action literals and the argument values the model      *)
(* draws for them.  A tool without an action parameter has the one action  *)
(* name it passes to ok().                                                 *)

Tools ==
    {"coinglass_market_info", "coinglass_market_data", "coinglass_price_history",
     "coinglass_oi_history", "coinglass_oi_distribution", "coinglass_funding_history",
     "coinglass_funding_current", "coinglass_long_short", "coinglass_liq_history",
     "coinglass_liq_orders", "coinglass_liq_heatmap", "coinglass_ob_history",
     "coinglass_ob_large_orders", "coinglass_whale_positions",
     "coinglass_bitfinex_longs_shorts", "coinglass_taker", "coinglass_spot",
     "coinglass_options", "coinglass_onchain", "coinglass_etf", "coinglass_grayscale",
     "coinglass_indicators", "coinglass_search", "coinglass_config"}

Actions(tool) ==
    CASE tool = "coinglass_market_info" -> {"coins", "pairs", "exchanges"}
      [] tool = "coinglass_market_data" -> {"coins_summary", "pairs_summary", "price_changes"}
      [] tool = "coinglass_price_history" -> {"price_history"}
      [] tool = "coinglass_oi_history" -> {"pair", "aggregated", "stablecoin", "coin_margin"}
      [] tool = "coinglass_oi_distribution" -> {"by_exchange", "exchange_chart"}
      [] tool = "coinglass_funding_history" -> {"pair", "oi_weighted", "vol_weighted"}
      [] tool = "coinglass_funding_current" -> {"rates", "accumulated", "arbitrage"}
      [] tool = "coinglass_long_short" -> {"global", "top_accounts", "top_positions", "taker_ratio"}
      [] tool = "coinglass_liq_history" -> {"pair", "aggregated", "by_coin", "by_exchange"}
      [] tool = "coinglass_liq_orders" -> {"orders"}
      [] tool = "coinglass_liq_heatmap" -> {"pair_heatmap", "coin_heatmap", "pair_map", "coin_map"}
      [] tool = "coinglass_ob_history" -> {"pair_depth", "coin_depth", "heatmap"}
      [] tool = "coinglass_ob_large_orders" -> {"current", "history"}
      [] tool = "coinglass_whale_positions" -> {"alerts", "positions", "all_positions"}
      [] tool = "coinglass_bitfinex_longs_shorts" -> {"bitfinex_margin"}
      [] tool = "coinglass_taker" -> {"pair_history", "coin_history", "by_exchange"}
      [] tool = "coinglass_spot" -> {"coins", "pairs", "coins_markets", "pairs_markets", "price_history"}
      [] tool = "coinglass_options" -> {"max_pain", "info", "oi_history", "volume_history"}
      [] tool = "coinglass_onchain" -> {"assets", "balance_list", "balance_chart", "transfers"}
      [] tool = "coinglass_etf" -> {"list", "flows", "net_assets", "premium", "detail", "price"}
      [] tool = "coinglass_grayscale" -> {"holdings", "premium"}
      [] tool = "coinglass_indicators" -> IndicatorActions
      [] tool = "coinglass_search" -> {"search"}
      [] OTHER -> {"exchanges", "intervals", "rate_limits", "plan_features"}

\* Argument values by annotated type: `str | None` admits None, `str` does not;
\* both admit the empty string.
OptStr(x) == {None, Str(""), Str(x)}
Opt(x) == {None, Str(x)}
ReqStr(x) == {Str(""), Str(x)}
\* Interval strings tried in tool calls: one only standard and above have, one
\* every tier has, one no tier has; m30 (startup and above) where noted.
IntervalStr == {Str("m5"), Str("h4"), Str("x9")}
OptInterval == IntervalStr \cup {None, Str("")}
\* exchange and pair are given together or not at all, except where noted.
ExPair == {<<None, None>>, <<Str("Binance"), Str("BTCUSDT")>>}

ArgSets(tool) ==
    CASE tool = "coinglass_market_info" ->
            {[NoArgs EXCEPT !.exchange = e] : e \in Opt("Binance")}
      [] tool \in {"coinglass_market_data", "coinglass_funding_current"} ->
            {[NoArgs EXCEPT !.symbol = s] : s \in OptStr("BTC")}
      [] tool = "coinglass_price_history" ->
            {[NoArgs EXCEPT !.exchange = e, !.pair = Str("BTCUSDT"), !.interval = i,
                            !.limit = Num(500)] :
                e \in ReqStr("Binance"), i \in IntervalStr \cup {Str("m30")}}
      [] tool = "coinglass_long_short" ->
            {[NoArgs EXCEPT !.exchange = e, !.pair = Str("BTCUSDT"), !.interval = i,
                            !.limit = Num(500)] :
                e \in ReqStr("Binance"), i \in IntervalStr}
      [] tool = "coinglass_oi_history" ->
            {[NoArgs EXCEPT !.symbol = s, !.exchange = ep[1], !.pair = ep[2], !.interval = i,
                            !.limit = Num(500)] :
                s \in OptStr("BTC"), ep \in ExPair \cup {<<Str("Binance"), None>>},
                i \in IntervalStr}
      [] tool = "coinglass_funding_history" ->
            {[NoArgs EXCEPT !.symbol = s, !.exchange = ep[1], !.pair = ep[2], !.interval = i,
                            !.limit = Num(500)] :
                s \in Opt("BTC"), ep \in ExPair \cup {<<None, Str("BTCUSDT")>>},
                i \in IntervalStr}
      [] tool = "coinglass_oi_distribution" ->
            {[NoArgs EXCEPT !.symbol = s, !.range = r] : s \in ReqStr("BTC"), r \in Opt("24h")}
      [] tool = "coinglass_liq_history" ->
            {[NoArgs EXCEPT !.symbol = s, !.exchange = ep[1], !.pair = ep[2], !.interval = i,
                            !.limit = Num(500)] :
                s \in Opt("BTC"), ep \in ExPair, i \in IntervalStr}
      [] tool = "coinglass_liq_orders" ->
            {[NoArgs EXCEPT !.symbol = s, !.side = d, !.limit = Num(50)] :
                s \in Opt("BTC"), d \in Opt("long")}
      [] tool = "coinglass_liq_heatmap" ->
            {[NoArgs EXCEPT !.symbol = s, !.exchange = ep[1], !.pair = ep[2],
                            !.range = Str("7d"), !.model = Num(1)] :
                s \in Opt("BTC"), ep \in ExPair}
      [] tool = "coinglass_ob_history" ->
            {[NoArgs EXCEPT !.symbol = s, !.exchange = ep[1], !.pair = ep[2], !.interval = i,
                            !.range = Str("2"), !.limit = Num(500)] :
                s \in Opt("BTC"), ep \in ExPair, i \in IntervalStr}
      [] tool = "coinglass_ob_large_orders" ->
            {[NoArgs EXCEPT !.exchange = ep[1], !.pair = ep[2], !.limit = Num(50)] :
                ep \in ExPair}
      [] tool = "coinglass_whale_positions" ->
            {[NoArgs EXCEPT !.symbol = s, !.user = None, !.page = Num(1)] : s \in Opt("BTC")}
      [] tool = "coinglass_bitfinex_longs_shorts" ->
            {[NoArgs EXCEPT !.symbol = s] : s \in ReqStr("BTC")}
      [] tool = "coinglass_taker" ->
            {[NoArgs EXCEPT !.symbol = Str("BTC"), !.exchange = ep[1], !.pair = ep[2],
                            !.interval = i, !.market = m, !.limit = Num(500)] :
                ep \in ExPair, i \in IntervalStr, m \in {Str("futures"), Str("spot")}}
      [] tool = "coinglass_spot" ->
            {[NoArgs EXCEPT !.symbol = None, !.exchange = ep[1], !.pair = ep[2],
                            !.interval = i, !.limit = Num(500)] :
                ep \in ExPair, i \in OptInterval}
      [] tool = "coinglass_options" ->
            {[NoArgs EXCEPT !.symbol = Str("BTC"), !.range = r] : r \in OptStr("7d")}
      [] tool = "coinglass_onchain" ->
            {[NoArgs EXCEPT !.exchange = e, !.asset = a, !.range = None,
                            !.transfer_type = None, !.limit = Num(50)] :
                e \in Opt("Binance"), a \in Opt("BTC")}
      [] tool = "coinglass_etf" ->
            {[NoArgs EXCEPT !.asset = Str("bitcoin"), !.ticker = t, !.region = Str("us"),
                            !.interval = i, !.limit = Num(100)] :
                t \in Opt("IBIT"), i \in OptInterval}
      [] tool = "coinglass_grayscale" ->
            {[NoArgs EXCEPT !.fund = f, !.range = r] : f \in Opt("GBTC"), r \in Opt("90d")}
      [] tool = "coinglass_indicators" ->
            {[NoArgs EXCEPT !.symbol = s, !.exchange = None, !.interval = i, !.range = None,
                            !.limit = Num(500)] :
                s \in Opt("BTC"), i \in {None, Str("m5"), Str("x9")}}
      [] tool = "coinglass_search" ->
            {[NoArgs EXCEPT !.query = q] : q \in {Str("liquidation"), Str("zzz")}}
      [] OTHER -> {NoArgs}

\* The statements of a tool's body for one call.
Body(tool, action, args) ==
    CASE tool = "coinglass_market_info" -> coinglass_market_info(action, args)
      [] tool = "coinglass_market_data" -> coinglass_market_data(action, args)
      [] tool = "coinglass_price_history" -> coinglass_price_history(action, args)
      [] tool = "coinglass_oi_history" -> coinglass_oi_history(action, args)
      [] tool = "coinglass_oi_distribution" -> coinglass_oi_distribution(action, args)
      [] tool = "coinglass_funding_history" -> coinglass_funding_history(action, args)
      [] tool = "coinglass_funding_current" -> coinglass_funding_current(action, args)
      [] tool = "coinglass_long_short" -> coinglass_long_short(action, args)
      [] tool = "coinglass_liq_history" -> coinglass_liq_history(action, args)
      [] tool = "coinglass_liq_orders" -> coinglass_liq_orders(action, args)
      [] tool = "coinglass_liq_heatmap" -> coinglass_liq_heatmap(action, args)
      [] tool = "coinglass_ob_history" -> coinglass_ob_history(action, args)
      [] tool = "coinglass_ob_large_orders" -> coinglass_ob_large_orders(action, args)
      [] tool = "coinglass_whale_positions" -> coinglass_whale_positions(action, args)
      [] tool = "coinglass_bitfinex_longs_shorts" -> coinglass_bitfinex_longs_shorts(action, args)
      [] tool = "coinglass_taker" -> coinglass_taker(action, args)
      [] tool = "coinglass_spot" -> coinglass_spot(action, args)
      [] tool = "coinglass_options" -> coinglass_options(action, args)
      [] tool = "coinglass_onchain" -> coinglass_onchain(action, args)
      [] tool = "coinglass_etf" -> coinglass_etf(action, args)
      [] tool = "coinglass_grayscale" -> coinglass_grayscale(action, args)
      [] tool = "coinglass_indicators" -> coinglass_indicators(action, args)
      [] tool = "coinglass_search" -> coinglass_search(action, args)
      [] OTHER -> coinglass_config(action, args)

-----------------------------------------------------------------------------
(* The upstream, as one HTTP attempt sees it: a response with a status and *)
(* (for 2xx) a JSON envelope {code, msg, data}, or a transport exception.  *)

\* A JSON value by its kind and size; all and your_plan are the entries of
\* those names in the dict that coinglass_config builds for 'intervals' (their
\* members, the sorted order left out), empty in every other value.
JNull == [j |-> "null", size |-> 0, all |-> {}, your_plan |-> {}]
JList(k) == [j |-> "list", size |-> k, all |-> {}, your_plan |-> {}]
JDict(k) == [j |-> "dict", size |-> k, all |-> {}, your_plan |-> {}]
JNum == [j |-> "num", size |-> 0, all |-> {}, your_plan |-> {}]
JStr == [j |-> "str", size |-> 0, all |-> {}, your_plan |-> {}]
\* an object whose values are lists of objects
JNested == [j |-> "nested", size |-> 2, all |-> {}, your_plan |-> {}]

DataSamples == {JNull, JList(0), JList(1), JDict(1), JNum, JStr, JNested}

NoOutcome == [t |-> "none", status |-> 0, code |-> Absent, msg |-> Absent, data |-> JNull]
Response(st, c, m, d) == [t |-> "response", status |-> st, code |-> c, msg |-> m, data |-> d]
TransportError(cls) == [NoOutcome EXCEPT !.t = cls]

ErrorStatuses == {302, 400, 401, 403, 404, 429, 499, 500, 502, 503, 599}

\* What a tool invocation is run against: one outcome of each kind the tool
\* body can tell apart (data of two shapes, a typed failure, a retryable one).
ToolOutcomes ==
    {Response(200, Str("0"), Str("success"), JList(1)),
     Response(200, Str("0"), Str("success"), JDict(2)),
     Response(429, Absent, Absent, JNull),
     Response(500, Absent, Absent, JNull)}

Outcomes ==
    {Response(200, Str("0"), Str("success"), d) : d \in DataSamples}
    \cup {Response(200, c, m, JNull) :
            c \in {Str("1"), Num(0), Absent}, m \in {Str("Invalid parameter"), None, Absent}}
    \cup {Response(201, Str("0"), Str("success"), JList(1)),
          Response(201, Str("1"), Str("Invalid parameter"), JList(1))}
    \cup {Response(st, Absent, Absent, JNull) : st \in ErrorStatuses}
    \cup {TransportError("TimeoutException"), TransportError("ConnectError"),
          TransportError("ReadError")}

-----------------------------------------------------------------------------
(* client.py *)

STOP_AFTER_ATTEMPT == 3
WAIT_MULTIPLIER == 1
WAIT_MIN == 1
WAIT_MAX == 10

is_retryable_any_status(exc) ==
    exc.exc \in {"TimeoutException", "ConnectError", "HTTPStatusError"}

is_retryable_with_429(exc) ==
    CASE exc.exc = "TimeoutException" -> TRUE
      [] exc.exc = "ConnectError" -> TRUE
      [] exc.exc = "RateLimitError" -> TRUE
      [] exc.exc = "HTTPStatusError" -> 500 <= exc.status /\ exc.status < 600
      [] OTHER -> FALSE

is_retryable(exc) ==
    CASE exc.exc = "TimeoutException" -> TRUE
      [] exc.exc = "ConnectError" -> TRUE
      [] exc.exc = "HTTPStatusError" -> 500 <= exc.status /\ exc.status < 600
      [] OTHER -> FALSE

FilterParams_truthy(stmt) ==
    LET params == IF stmt.given THEN stmt.bag ELSE EmptyBag
    IN  [k \in Keys |-> IF Truthy(params[k]) THEN params[k] ELSE Absent]

FilterParams_drop_empty(stmt) ==
    LET params == IF stmt.given THEN stmt.bag ELSE EmptyBag
    IN  [k \in Keys |-> IF params[k] \in {None, Str("")} THEN Absent ELSE params[k]]

\* filtered_params = {k: v for k, v in (params or {}).items() if v is not None}
FilterParams(stmt) ==
    LET params == IF stmt.given THEN stmt.bag ELSE EmptyBag
    IN  [k \in Keys |-> IF params[k] = None THEN Absent ELSE params[k]]

http_get_always_mapping(sess, stmt) ==
    [method |-> "GET",
     base |-> sess.base_url,
     endpoint |-> stmt.endpoint,
     some |-> TRUE,
     params |-> FilterParams(stmt),
     key |-> sess.api_key,
     timeout |-> TIMEOUT]

http_get_default_timeout(sess, stmt) ==
    LET filtered == FilterParams(stmt)
    IN  [method |-> "GET",
         base |-> sess.base_url,
         endpoint |-> stmt.endpoint,
         some |-> KeysOf(filtered) # {},
         params |-> filtered,
         key |-> sess.api_key,
         timeout |-> 5]

\* The arguments of self.http.get(...); some is FALSE when params=None is passed.
http_get(sess, stmt) ==
    LET filtered == FilterParams(stmt)
    IN  [method |-> "GET",
         base |-> sess.base_url,
         endpoint |-> stmt.endpoint,
         some |-> KeysOf(filtered) # {},
         params |-> filtered,
         key |-> sess.api_key,
         timeout |-> TIMEOUT]

\* f"{data.get('msg', 'Unknown error')}": the default only when the key is
\* absent; a null msg is rendered as the text None.
FormatMsg(m) ==
    CASE m = Absent -> "Unknown error"
      [] m.ty = "none" -> "None"
      [] OTHER -> m.s

Returned(d) == [kind |-> "return", exc |-> NoExc, data |-> d]
Raised(e) == [kind |-> "raise", exc |-> e, data |-> JNull]

\* The body of request from the return of http.get on, for outcome o.
request_body_status_first(o) ==
    IF o.t # "response" THEN Raised(Exc(o.t, "http.get"))
    ELSE IF ~(200 <= o.status /\ o.status < 300) THEN Raised(HTTPStatusError(o.status))
    ELSE IF o.code # Str("0")
         THEN Raised(Exc("APIError", FormatMsg(o.msg)))
    ELSE Returned(o.data)

request_body_whole_envelope(o) ==
    IF o.t # "response" THEN Raised(Exc(o.t, "http.get"))
    ELSE IF o.status = 429 THEN Raised(Exc("RateLimitError", "429"))
    ELSE IF o.status = 403 THEN Raised(Exc("PlanLimitError", "403"))
    ELSE IF o.status = 401 THEN Raised(Exc("APIError", "Invalid API key"))
    ELSE IF ~(200 <= o.status /\ o.status < 300) THEN Raised(HTTPStatusError(o.status))
    ELSE IF o.code # Str("0")
         THEN Raised(Exc("APIError", FormatMsg(o.msg)))
    ELSE Returned(JDict(3))

request_body_msg_or_default(o) ==
    IF o.t # "response" THEN Raised(Exc(o.t, "http.get"))
    ELSE IF o.status = 429 THEN Raised(Exc("RateLimitError", "429"))
    ELSE IF o.status = 403 THEN Raised(Exc("PlanLimitError", "403"))
    ELSE IF o.status = 401 THEN Raised(Exc("APIError", "Invalid API key"))
    ELSE IF ~(200 <= o.status /\ o.status < 300) THEN Raised(HTTPStatusError(o.status))
    ELSE IF o.code # Str("0")
         THEN Raised(Exc("APIError", IF o.msg.ty = "str" /\ o.msg.s # "" THEN o.msg.s
                                     ELSE "Unknown error"))
    ELSE Returned(o.data)

request_body_null_rejected(o) ==
    IF o.t # "response" THEN Raised(Exc(o.t, "http.get"))
    ELSE IF o.status = 429 THEN Raised(Exc("RateLimitError", "429"))
    ELSE IF o.status = 403 THEN Raised(Exc("PlanLimitError", "403"))
    ELSE IF o.status = 401 THEN Raised(Exc("APIError", "Invalid API key"))
    ELSE IF ~(200 <= o.status /\ o.status < 300) THEN Raised(HTTPStatusError(o.status))
    ELSE IF o.code # Str("0") THEN Raised(Exc("APIError", FormatMsg(o.msg)))
    ELSE IF o.data = JNull THEN Raised(Exc("APIError", "no data"))
    ELSE Returned(o.data)

request_body_429_as_empty(o) ==
    IF o.t # "response" THEN Raised(Exc(o.t, "http.get"))
    ELSE IF o.status = 429 THEN Returned(JNull)
    ELSE IF o.status = 403 THEN Raised(Exc("PlanLimitError", "403"))
    ELSE IF o.status = 401 THEN Raised(Exc("APIError", "Invalid API key"))
    ELSE IF ~(200 <= o.status /\ o.status < 300) THEN Raised(HTTPStatusError(o.status))
    ELSE IF o.code # Str("0") THEN Raised(Exc("APIError", FormatMsg(o.msg)))
    ELSE Returned(o.data)

request_body(o) ==
    IF o.t # "response" THEN Raised(Exc(o.t, "http.get"))
    ELSE IF o.status = 429 THEN Raised(Exc("RateLimitError", "429"))
    ELSE IF o.status = 403 THEN Raised(Exc("PlanLimitError", "403"))
    ELSE IF o.status = 401 THEN Raised(Exc("APIError", "Invalid API key"))
    ELSE IF ~(200 <= o.status /\ o.status < 300) THEN Raised(HTTPStatusError(o.status))
    ELSE IF o.code # Str("0")
         THEN Raised(Exc("APIError", FormatMsg(o.msg)))
    ELSE Returned(o.data)

\* tenacity's stop=stop_after_attempt(3): no further attempt after the n-th.
stop_after_4(n) == n >= STOP_AFTER_ATTEMPT + 1

stop_never(n) == n < 0

stop_after_attempt(n) == n >= STOP_AFTER_ATTEMPT

wait_exponential_from_2(n) ==
    LET exp == WAIT_MULTIPLIER * 2 ^ n
        capped == IF exp < WAIT_MAX THEN exp ELSE WAIT_MAX
    IN  IF capped > WAIT_MIN THEN capped ELSE WAIT_MIN

\* wait=wait_exponential(multiplier=1, min=1, max=10), after the n-th attempt.
wait_exponential(n) ==
    LET exp == WAIT_MULTIPLIER * 2 ^ (n - 1)
        capped == IF exp < WAIT_MAX THEN exp ELSE WAIT_MAX
    IN  IF capped > WAIT_MIN THEN capped ELSE WAIT_MIN

\* The @retry decorator has no reraise=True: when the attempts are used up
\* tenacity raises its RetryError, which holds the last attempt's exception.
RetryError(e) == [exc |-> "RetryError", why |-> e.why, status |-> e.status, cause |-> e.exc]

\* What the decorated request does after its n-th attempt ended as r:
\* give r to the caller, sleep and try again, or give up.
retry_reraise(n, r) ==
    IF r.kind = "return" \/ ~is_retryable(r.exc) THEN [do |-> "finish", r |-> r]
    ELSE IF stop_after_attempt(n) THEN [do |-> "finish", r |-> r]
    ELSE [do |-> "sleep", r |-> r]

retry(n, r) ==
    IF r.kind = "return" \/ ~is_retryable(r.exc) THEN [do |-> "finish", r |-> r]
    ELSE IF stop_after_attempt(n) THEN [do |-> "finish", r |-> Raised(RetryError(r.exc))]
    ELSE [do |-> "sleep", r |-> r]

-----------------------------------------------------------------------------
(* server.py: ok() and running a tool body up to its next await.           *)

\* What an invocation returns: ok()'s envelope from a tool (env is TRUE), the
\* bare data from client.request called on its own.
NoEnv == [env |-> FALSE, success |-> FALSE, action |-> "", data |-> JNull, metadata |-> NoMeta]
Bare(data) == [NoEnv EXCEPT !.data = data]

\* The value of the data argument of ok(): the payload itself, the one-key
\* dict or the key list market_info derives from it, or the dict that search
\* (query, matches) and config (three entries per action) build.
ConfigData_default_all(action, p) ==
    IF action = "intervals"
    THEN [JDict(3) EXCEPT !.all = PLAN_INTERVALS["enterprise"],
                          !.your_plan = IF p \in DOMAIN PLAN_INTERVALS
                                        THEN PLAN_INTERVALS[p]
                                        ELSE PLAN_INTERVALS["enterprise"]]
    ELSE JDict(3)

\* The dict coinglass_config builds: three entries for every action; for
\* 'intervals' they are all (the enterprise set), your_plan (the set of the
\* caller's plan, empty for a plan with no entry) and plan.
ConfigData(action, p) ==
    IF action = "intervals"
    THEN [JDict(3) EXCEPT !.all = PLAN_INTERVALS["enterprise"],
                          !.your_plan = IF p \in DOMAIN PLAN_INTERVALS
                                        THEN PLAN_INTERVALS[p]
                                        ELSE {}]
    ELSE JDict(3)

OkData(st, data, p) ==
    CASE st.how = "only" -> IF data.j \in {"dict", "nested"} THEN JDict(1) ELSE data
      [] st.how = "keys" -> IF data.j \in {"dict", "nested"} THEN JList(data.size) ELSE JList(0)
      [] st.how = "search" -> JDict(2)
      [] st.how = "config" -> ConfigData(st.action, p)
      [] OTHER -> data

\* The values of the keyword arguments at the return.
MetaValues(meta, data, p) ==
    [k \in MetaKeys |->
        CASE meta[k] = LenOfData -> (IF data.j = "list" THEN Num(data.size) ELSE None)
          [] meta[k] = PlanOfSession -> Str(p)
          [] OTHER -> meta[k]]

ok_drop_falsy(action, data, meta) ==
    [env |-> TRUE, success |-> TRUE, action |-> action, data |-> data,
     metadata |-> [k \in MetaKeys |-> IF Truthy(meta[k]) THEN meta[k] ELSE Absent]]

\* "metadata": {k: v for k, v in meta.items() if v is not None}
ok(action, data, meta) ==
    [env |-> TRUE, success |-> TRUE, action |-> action, data |-> data,
     metadata |-> [k \in MetaKeys |-> IF meta[k] = None THEN Absent ELSE meta[k]]]

RECURSIVE Run(_, _)
\* Runs the statements in order: stops at the first check that raises, at a
\* request (the coroutine awaits) or at the return.
Run(stmts, p) ==
    LET s == Head(stmts)
        e == CASE s.op = "check_plan" -> check_plan(p, s.action)
               [] s.op = "check_interval" -> check_interval(p, s.val)
               [] s.op = "check_params" -> check_params(s.action, s.bag)
               [] s.op = "raise" -> Exc("ValueError", s.action)
               [] OTHER -> NoExc
    IN  IF s.op = "request" THEN [kind |-> "request", exc |-> NoExc, stmts |-> stmts]
        ELSE IF s.op \in {"return", "return_data"} THEN [kind |-> "return", exc |-> NoExc, stmts |-> stmts]
        ELSE IF e # NoExc THEN [kind |-> "raise", exc |-> e, stmts |-> stmts]
        ELSE Run(Tail(stmts), p)

-----------------------------------------------------------------------------
(* The state machine: the lifespan, then tool invocations one at a time.   *)

NoCall == [tool |-> "", action |-> "", args |-> NoArgs]
NoSession == [api_key |-> "", base_url |-> ""]
NoResult == [kind |-> "none", exc |-> NoExc, env |-> NoEnv]
NoGate == [fn |-> "", plan |-> "", action |-> "", interval |-> None, kwargs |-> EmptyBag,
           exc |-> NoExc]

\* The tasks that call client.request on the shared client at the same time.
MaxTasks == 2
Tasks == 1..MaxTasks

\* One task's invocation of request: the state tenacity keeps per call (its
\* attempt number and sleeps) and what the task sent, got and ended with.
NoTask == [pc |-> "idle", ep |-> "", attempts |-> 0, reqs |-> << >>, outs |-> << >>,
           waits |-> << >>, result |-> NoResult, cancelled |-> FALSE]

\* COINGLASS_PLAN as the operator sets it ("standard" when unset): a tier in
\* lower case or not, or a word that is no tier.
EnvPlanSettings == Plan \cup {"STANDARD", "Hobbyist", "free"}

\* str.lower() on those settings
Lower(s) ==
    CASE s = "STANDARD" -> "standard"
      [] s = "Hobbyist" -> "hobbyist"
      [] OTHER -> s

\* The plans a context can hold: the settings after .lower(), unvalidated.
EnvPlans == {Lower(s) : s \in EnvPlanSettings}
EnvKeys == {"", "test-api-key"}

Init ==
    /\ pc = "start"
    /\ plan = ""
    /\ session = NoSession
    /\ call = NoCall
    /\ rest = << >>
    /\ attempts = 0
    /\ reqs = << >>
    /\ outs = << >>
    /\ waits = << >>
    /\ lastExc = NoExc
    /\ payload = JNull
    /\ result = NoResult
    /\ gres = NoGate
    /\ tasks = [t \in Tasks |-> NoTask]

Lifespan_key_unchecked(key, p) ==
    /\ pc = "start"
    /\ pc' = "idle"
    /\ plan' = Lower(p)
    /\ session' = [api_key |-> key, base_url |-> BASE_URL]
    /\ UNCHANGED <<call, rest, attempts, reqs, outs, waits, lastExc, payload, result, gres, tasks>>

\* lifespan: raises when the key is empty, else yields the client and the plan.
Lifespan(key, p) ==
    /\ pc = "start"
    /\ IF key = ""
       THEN /\ pc' = "failed"
            /\ result' = [NoResult EXCEPT !.kind = "raise", !.exc = Exc("ValueError", "api_key")]
            /\ UNCHANGED <<plan, session>>
       ELSE /\ pc' = "idle"
            /\ plan' = Lower(p)
            /\ session' = [api_key |-> key, base_url |-> BASE_URL]
            /\ UNCHANGED result
    /\ UNCHANGED <<call, rest, attempts, reqs, outs, waits, lastExc, payload, gres, tasks>>

\* The tool body runs from stmts, with data the value of the last await, until
\* it raises, returns or awaits client.request (whose first attempt is sent).
Continue(stmts, data) ==
    LET r == Run(stmts, plan)
    IN  /\ rest' = r.stmts
        /\ payload' = data
        /\ lastExc' = NoExc
        /\ UNCHANGED waits
        /\ \/ /\ r.kind = "raise"
              /\ pc' = "done"
              /\ result' = [NoResult EXCEPT !.kind = "raise", !.exc = r.exc]
              /\ UNCHANGED <<attempts, reqs>>
           \/ /\ r.kind = "return"
              /\ pc' = "done"
              /\ result' = [NoResult EXCEPT !.kind = "return",
                                            !.env = IF Head(r.stmts).op = "return"
                                                    THEN LET st == Head(r.stmts)
                                                             d == OkData(st, data, plan)
                                                         IN  ok(st.action, d, MetaValues(st.meta, d, plan))
                                                    ELSE Bare(data)]
              /\ UNCHANGED <<attempts, reqs>>
           \/ /\ r.kind = "request"
              /\ pc' = "inflight"
              /\ attempts' = attempts + 1
              /\ reqs' = Append(reqs, http_get(session, Head(r.stmts)))
              /\ UNCHANGED result

\* client.request returned data: the body goes on after the await.
Resume(data) == Continue(Tail(rest), data)

Invoke(tool, action, args) ==
    /\ pc = "idle"
    /\ call' = [tool |-> tool, action |-> action, args |-> args]
    /\ Continue(Body(tool, action, args), JNull)
    /\ UNCHANGED <<plan, session, outs, gres, tasks>>

\* The attempt in flight ends with outcome o; the retry policy decides.
Respond(o) ==
    /\ pc = "inflight"
    /\ outs' = Append(outs, o)
    /\ LET d == retry(attempts, request_body(o))
       IN  \/ /\ d.do = "sleep"
              /\ pc' = "backoff"
              /\ lastExc' = d.r.exc
              /\ waits' = Append(waits, wait_exponential(attempts))
              /\ UNCHANGED <<rest, attempts, reqs, payload, result>>
           \/ /\ d.do = "finish"
              /\ d.r.kind = "raise"
              /\ pc' = "done"
              /\ lastExc' = d.r.exc
              /\ result' = [NoResult EXCEPT !.kind = "raise", !.exc = d.r.exc]
              /\ UNCHANGED <<rest, attempts, reqs, waits, payload>>
           \/ /\ d.do = "finish"
              /\ d.r.kind = "return"
              /\ Resume(d.r.data)
    /\ UNCHANGED <<plan, session, call, gres, tasks>>

Wake_early ==
    /\ pc \in {"inflight", "backoff"}
    /\ attempts < STOP_AFTER_ATTEMPT
    /\ pc' = "inflight"
    /\ attempts' = attempts + 1
    /\ reqs' = Append(reqs, http_get(session, Head(rest)))
    /\ UNCHANGED <<plan, session, call, rest, outs, waits, lastExc, payload, result, gres, tasks>>

\* The backoff sleep is over: the next attempt is sent, with the same arguments.
Wake ==
    /\ pc = "backoff"
    /\ pc' = "inflight"
    /\ attempts' = attempts + 1
    /\ reqs' = Append(reqs, http_get(session, Head(rest)))
    /\ UNCHANGED <<plan, session, call, rest, outs, waits, lastExc, payload, result, gres, tasks>>

\* The caller has the envelope or the error; the next invocation can start.
Finish ==
    /\ pc = "done"
    /\ pc' = "idle"
    /\ call' = NoCall
    /\ rest' = << >>
    /\ attempts' = 0
    /\ reqs' = << >>
    /\ outs' = << >>
    /\ waits' = << >>
    /\ lastExc' = NoExc
    /\ payload' = JNull
    /\ result' = NoResult
    /\ UNCHANGED <<plan, session, gres, tasks>>

Next ==
    \/ \E key \in EnvKeys, p \in EnvPlanSettings : Lifespan(key, p)
    \/ \E tool \in Tools : \E action \in Actions(tool), args \in ArgSets(tool) :
          Invoke(tool, action, args)
    \/ \E o \in ToolOutcomes : Respond(o)
    \/ Wake
    \/ Finish

Spec == Init /\ [][Next]_vars

-----------------------------------------------------------------------------
(* client.request called on its own, as test_client.py calls it: any       *)
(* parameter bag (or none), against every upstream outcome.                *)

ClientNames == {"symbol", "exchange"}
ClientValues == {Absent, None, Str(""), Num(0), Str("BTC")}
ClientBags ==
    {[k \in Keys |-> IF k \in ClientNames THEN f[k] ELSE Absent] : f \in [ClientNames -> ClientValues]}

\* await client.request(endpoint, params), or with params omitted
ClientCall(ep, given, params) ==
    /\ pc = "idle"
    /\ call' = [tool |-> "client.request", action |-> ep, args |-> NoArgs]
    /\ Continue(<< IF given THEN Request(ep, params) ELSE RequestNoParams(ep), ReturnData >>, JNull)
    /\ UNCHANGED <<plan, session, outs, gres, tasks>>

ClientNext ==
    \/ \E key \in EnvKeys : Lifespan(key, "standard")
    \/ \E params \in ClientBags : ClientCall("/api/test", TRUE, params)
    \/ ClientCall("/api/test", FALSE, EmptyBag)
    \/ \E o \in Outcomes : Respond(o)
    \/ Wake
    \/ Finish

ClientSpec == Init /\ [][ClientNext]_vars

\* The same calls, with what the event loop guarantees: an attempt in flight
\* ends (by the 30 s timeout at the latest) and a backoff sleep returns.
ClientFairSpec ==
    /\ Init
    /\ [][ClientNext]_vars
    /\ WF_vars(\E o \in Outcomes : Respond(o))
    /\ WF_vars(Wake)

-----------------------------------------------------------------------------
(* The gate helpers called on their own, as the tests call them: any plan  *)
(* in the context, any action, interval and keyword arguments.             *)

MaxNum == 1

GateActions == DOMAIN ACTION_PLAN \cup DOMAIN ACTION_PARAMS \cup {"rates", "by_coin"}
ParamActions == DOMAIN ACTION_PARAMS \cup {"orders", "rates"}
GateIntervals == {Str(i) : i \in AllIntervals \cup {"x9", ""}} \cup {None}
GateNames == {"exchange", "pair", "symbol", "interval", "range"}
GateValues == {Absent, None, Str(""), Str("BTC")} \cup {Num(i) : i \in 0..MaxNum}
GateBags ==
    {[k \in Keys |-> IF k \in GateNames THEN f[k] ELSE Absent] : f \in [GateNames -> GateValues]}

CallCheckPlan(p, action) ==
    /\ gres = NoGate
    /\ gres' = [NoGate EXCEPT !.fn = "check_plan", !.plan = p, !.action = action,
                              !.exc = check_plan(p, action)]
    /\ UNCHANGED <<plan, session, pc, call, rest, attempts, reqs, outs, waits, lastExc, payload, result,
                 tasks>>

CallCheckInterval(p, interval) ==
    /\ gres = NoGate
    /\ gres' = [NoGate EXCEPT !.fn = "check_interval", !.plan = p, !.interval = interval,
                              !.exc = check_interval(p, interval)]
    /\ UNCHANGED <<plan, session, pc, call, rest, attempts, reqs, outs, waits, lastExc, payload, result,
                 tasks>>

CallCheckParams(action, kwargs) ==
    /\ gres = NoGate
    /\ gres' = [NoGate EXCEPT !.fn = "check_params", !.action = action, !.kwargs = kwargs,
                              !.exc = check_params(action, kwargs)]
    /\ UNCHANGED <<plan, session, pc, call, rest, attempts, reqs, outs, waits, lastExc, payload, result,
                 tasks>>

\* The helper has returned or raised; the next call can be made.
GateReturn ==
    /\ gres # NoGate
    /\ gres' = NoGate
    /\ UNCHANGED <<plan, session, pc, call, rest, attempts, reqs, outs, waits, lastExc, payload, result,
                 tasks>>

\* The guard stands before the quantifiers so that it is evaluated once.
GateNext ==
    \/ gres = NoGate /\ \E p \in EnvPlans, action \in GateActions : CallCheckPlan(p, action)
    \/ gres = NoGate /\ \E p \in EnvPlans, interval \in GateIntervals : CallCheckInterval(p, interval)
    \/ gres = NoGate /\ \E action \in ParamActions, kwargs \in GateBags : CallCheckParams(action, kwargs)
    \/ GateReturn

GateSpec == Init /\ [][GateNext]_vars

-----------------------------------------------------------------------------
(* Several tasks awaiting client.request on the one shared client: each   *)
(* await (http.get, the backoff sleep) is a point where another task runs  *)
(* or where the task is cancelled.                                         *)

TaskEndpoints == {"/api/a", "/api/b"}

\* What the tasks' attempts are answered with: data, a typed error, a retryable one.
TaskOutcomes ==
    {Response(200, Str("0"), Str("success"), JList(1)),
     Response(429, Absent, Absent, JNull),
     Response(500, Absent, Absent, JNull)}

\* The attempt number the retry policy of a call is asked about, if one
\* counter served every call made through the client.
attempt_number_shared(ts, t) ==
    LET sum[i \in 0..MaxTasks] == IF i = 0 THEN 0 ELSE sum[i - 1] + ts[i].attempts
    IN  sum[MaxTasks]

\* The attempt number of the call's own retry state.
attempt_number(ts, t) == ts[t].attempts

\* A task calls client.request(ep): its first attempt is sent.
TaskCall(t, ep) ==
    /\ pc = "idle"
    /\ tasks[t].pc = "idle"
    /\ tasks' = [tasks EXCEPT ![t] =
                    [NoTask EXCEPT !.pc = "inflight", !.ep = ep, !.attempts = 1,
                                   !.reqs = << http_get(session, RequestNoParams(ep)) >>]]
    /\ UNCHANGED <<plan, session, pc, call, rest, attempts, reqs, outs, waits, lastExc, payload,
                   result, gres>>

\* The attempt of task t ends with outcome o; the retry policy decides.
TaskRespond(t, o) ==
    /\ tasks[t].pc = "inflight"
    /\ LET x == tasks[t]
           n == attempt_number(tasks, t)
           d == retry(n, request_body(o))
       IN  tasks' = [tasks EXCEPT ![t] =
             IF d.do = "sleep"
             THEN [x EXCEPT !.pc = "backoff", !.outs = Append(x.outs, o),
                            !.waits = Append(x.waits, wait_exponential(n))]
             ELSE IF d.r.kind = "raise"
             THEN [x EXCEPT !.pc = "done", !.outs = Append(x.outs, o),
                            !.result = [NoResult EXCEPT !.kind = "raise", !.exc = d.r.exc]]
             ELSE [x EXCEPT !.pc = "done", !.outs = Append(x.outs, o),
                            !.result = [NoResult EXCEPT !.kind = "return",
                                                        !.env = Bare(d.r.data)]]]
    /\ UNCHANGED <<plan, session, pc, call, rest, attempts, reqs, outs, waits, lastExc, payload,
                   result, gres>>

\* The backoff sleep of task t is over: its next attempt is sent.
TaskWake(t) ==
    /\ tasks[t].pc = "backoff"
    /\ tasks' = [tasks EXCEPT ![t] =
                    [@ EXCEPT !.pc = "inflight", !.attempts = @ + 1,
                              !.reqs = Append(@, http_get(session, RequestNoParams(tasks[t].ep)))]]
    /\ UNCHANGED <<plan, session, pc, call, rest, attempts, reqs, outs, waits, lastExc, payload,
                   result, gres>>

\* The caller of task t cancels it: CancelledError is raised at the await
\* the task is in, is not retryable and leaves request.
TaskCancel(t) ==
    /\ tasks[t].pc \in {"inflight", "backoff"}
    /\ tasks' = [tasks EXCEPT ![t] =
                    [@ EXCEPT !.pc = "done", !.cancelled = TRUE,
                              !.result = [NoResult EXCEPT !.kind = "raise",
                                                          !.exc = Exc("CancelledError", "cancel")]]]
    /\ UNCHANGED <<plan, session, pc, call, rest, attempts, reqs, outs, waits, lastExc, payload,
                   result, gres>>

\* The caller of task t has its result; the task can call again.
TaskFinish(t) ==
    /\ tasks[t].pc = "done"
    /\ tasks' = [tasks EXCEPT ![t] = NoTask]
    /\ UNCHANGED <<plan, session, pc, call, rest, attempts, reqs, outs, waits, lastExc, payload,
                   result, gres>>

TaskNext ==
    \/ \E key \in EnvKeys : Lifespan(key, "standard")
    \/ \E t \in Tasks, ep \in TaskEndpoints : TaskCall(t, ep)
    \/ \E t \in Tasks, o \in TaskOutcomes : TaskRespond(t, o)
    \/ \E t \in Tasks : TaskWake(t)
    \/ \E t \in Tasks : TaskCancel(t)
    \/ \E t \in Tasks : TaskFinish(t)

TaskSpec == Init /\ [][TaskNext]_vars

-----------------------------------------------------------------------------
(* Properties of CoinGlassClient.request, checked under ClientSpec.        *)

\* An outcome the retry policy is meant to retry: a timeout, a connection
\* error, or a response with a 5xx status.
RetryableOutcome(o) ==
    \/ o.t \in {"TimeoutException", "ConnectError"}
    \/ o.t = "response" /\ o.status >= 500 /\ o.status <= 599

\* The exception class an outcome raises inside the request body.
KindOf(o) == IF o.t = "response" THEN "HTTPStatusError" ELSE o.t

AllRetryable == \A i \in 1..Len(outs) : RetryableOutcome(outs[i])

TypedError(st) ==
    CASE st = 429 -> Exc("RateLimitError", "429")
      [] st = 403 -> Exc("PlanLimitError", "403")
      [] OTHER -> Exc("APIError", "Invalid API key")

\* C1: a response with status 429, 403 or 401 ends the invocation at once with
\* the typed error of that status (RateLimitError, PlanLimitError, APIError
\* 'Invalid API key'): it is the last attempt, no backoff follows it, and when
\* it answers the first attempt exactly one HTTP attempt has been made.
C1_TypedErrorNoRetry ==
    \A i \in 1..Len(outs) :
        (outs[i].t = "response" /\ outs[i].status \in {429, 403, 401}) =>
            /\ i = Len(outs)
            /\ pc = "done"
            /\ result.kind = "raise"
            /\ result.exc = TypedError(outs[i].status)
            /\ attempts = i
            /\ Len(reqs) = i
            /\ Len(waits) = i - 1

C1_Witness ==
    /\ pc = "done"
    /\ Len(outs) = 1
    /\ outs[1].status = 429
    /\ attempts = 1
    /\ waits = << >>
    /\ result.exc.exc = "RateLimitError"

\* C2: an invocation of request never makes more than 3 HTTP attempts, and
\* when every attempt failed retryably the failure reaches the caller after
\* exactly 3 attempts.
C2_AtMostThreeAttempts ==
    /\ attempts <= 3
    /\ Len(reqs) = attempts
    /\ Len(outs) <= attempts
    /\ (pc = "done" /\ AllRetryable) => (attempts = 3 /\ Len(outs) = 3 /\ result.kind = "raise")
    /\ (pc \in {"inflight", "backoff"} /\ attempts > 1) => AllRetryable

C2_Witness ==
    /\ pc = "done"
    /\ attempts = 3
    /\ AllRetryable
    /\ outs[1].status = 500 /\ outs[2].status = 502 /\ outs[3].status = 503
    /\ result.kind = "raise"

\* C3, as claimed: after 3 retryable failures the caller gets the failure of
\* the last attempt, of the same kind (HTTPStatusError with its status,
\* TimeoutException or ConnectError), not a wrapping error.
C3_LastFailureUnchanged ==
    (pc = "done" /\ Len(outs) = 3 /\ AllRetryable) =>
        /\ result.kind = "raise"
        /\ result.exc.exc = KindOf(outs[3])
        /\ result.exc.status = outs[3].status

\* C4: when the earlier attempts failed retryably and a later attempt gets a
\* 2xx response with code "0", the invocation returns that attempt's data and
\* the caller sees no error.
C4_LaterSuccessHidesFailures ==
    (/\ pc = "done"
     /\ Len(outs) >= 2
     /\ \A i \in 1..(Len(outs) - 1) : RetryableOutcome(outs[i])
     /\ outs[Len(outs)].t = "response"
     /\ outs[Len(outs)].status >= 200 /\ outs[Len(outs)].status <= 299
     /\ outs[Len(outs)].code = Str("0")) =>
        /\ result.kind = "return"
        /\ result.exc = NoExc
        /\ result.env.data = outs[Len(outs)].data
        /\ Len(outs) <= 3

C4_Witness ==
    /\ pc = "done"
    /\ Len(outs) = 3
    /\ outs[1].t = "TimeoutException"
    /\ outs[2].status = 503
    /\ outs[3].status = 200
    /\ result.kind = "return"
    /\ result.env.data = JList(1)

-----------------------------------------------------------------------------
(* Properties of the tool invocations, checked under Spec.                 *)

InCall == pc \in {"inflight", "backoff", "done"}

TheBody == Body(call.tool, call.action, call.args)

\* What the i-th statement of a body raises when it is a check that fails for
\* the session's plan, NoExc otherwise.
GateFailure(stmt) ==
    CASE stmt.op = "check_plan" /\ stmt.action \in DOMAIN ACTION_PLAN
            /\ Rank(plan) < PLAN_HIERARCHY[ACTION_PLAN[stmt.action]] -> Exc("ValueError", "plan")
      [] stmt.op = "check_interval"
            /\ ~(plan \in Plan /\ stmt.val.ty = "str" /\ stmt.val.s \in PLAN_INTERVALS[plan]) ->
                Exc("ValueError", "interval")
      [] stmt.op = "check_params" /\ stmt.action \in DOMAIN ACTION_PARAMS
            /\ (\E j \in 1..Len(ACTION_PARAMS[stmt.action]) :
                    stmt.bag[ACTION_PARAMS[stmt.action][j]] \in {Absent, None, Str(""), Num(0)}) ->
                Exc("ValueError", "params")
      [] stmt.op = "raise" -> Exc("ValueError", stmt.action)
      [] OTHER -> NoExc

FailingChecks == {i \in 1..Len(TheBody) : GateFailure(TheBody[i]) # NoExc}

FirstFailing == CHOOSE i \in FailingChecks : \A j \in FailingChecks : i <= j

\* C5: when a gate check or the tool's own required-argument check of an
\* invocation fails, the invocation has ended with that error (the first one
\* in the body's order), it has issued no HTTP request and nothing was retried.
C5_GateFailureIsTerminal ==
    (InCall /\ FailingChecks # {}) =>
        /\ pc = "done"
        /\ result.kind = "raise"
        /\ result.exc = GateFailure(TheBody[FirstFailing])
        /\ attempts = 0
        /\ reqs = << >>
        /\ outs = << >>
        /\ waits = << >>

C5_Witness ==
    /\ pc = "done"
    /\ call.tool = "coinglass_price_history"
    /\ plan = "hobbyist"
    /\ call.args.interval = Str("m5")
    /\ result.exc = Exc("ValueError", "interval")
    /\ attempts = 0

\* The tools that take the action name as an argument.
ToolsWithAction ==
    Tools \ {"coinglass_price_history", "coinglass_liq_orders",
             "coinglass_bitfinex_longs_shorts", "coinglass_search"}

\* The argument a required-parameter name stands for.
ArgOf(name) == call.args[name]

MissingRequired ==
    /\ call.action \in DOMAIN ACTION_PARAMS
    /\ \E j \in 1..Len(ACTION_PARAMS[call.action]) : ~Truthy(ArgOf(ACTION_PARAMS[call.action][j]))

\* C6, as claimed: an invocation whose action has a required-parameter list in
\* ACTION_PARAMS and in which one of those parameters is missing or falsy
\* issues no HTTP request and, when it has ended, has raised an error.
C6_RequiredBeforeRequest ==
    (InCall /\ call.tool \in ToolsWithAction /\ MissingRequired) =>
        /\ reqs = << >>
        /\ pc = "done" => result.kind = "raise"

\* C7, as claimed: no request of a tool invocation carries an interval that is
\* not in the permitted set of the session's plan.
C7_IntervalCheckedBeforeRequest ==
    \A i \in 1..Len(reqs) :
        reqs[i].params["interval"] # Absent =>
            /\ plan \in Plan
            /\ reqs[i].params["interval"].ty = "str"
            /\ reqs[i].params["interval"].s \in PLAN_INTERVALS[plan]

-----------------------------------------------------------------------------
(* Properties of the gate helpers, checked under GateSpec.                 *)

Raises == gres.exc # NoExc

\* C8: for each of the five tiers and every action, check_plan raises exactly
\* when the action has a minimum plan in ACTION_PLAN and the caller's rank in
\* PLAN_HIERARCHY is strictly below that plan's rank; 'orders' rejects
\* hobbyist and accepts standard and professional.
C8_CheckPlan ==
    (gres.fn = "check_plan" /\ gres.plan \in Plan) =>
        /\ Raises <=> (/\ gres.action \in DOMAIN ACTION_PLAN
                       /\ PLAN_HIERARCHY[gres.plan] < PLAN_HIERARCHY[ACTION_PLAN[gres.action]])
        /\ Raises => gres.exc = Exc("ValueError", "plan")
        /\ (gres.action = "orders" /\ gres.plan = "hobbyist") => Raises
        /\ (gres.action = "orders" /\ gres.plan \in {"standard", "professional"}) => ~Raises

C8_Witness ==
    /\ gres.fn = "check_plan"
    /\ gres.plan = "standard"
    /\ gres.action = "pair_heatmap"
    /\ Raises

\* C9: check_interval passes exactly when the interval is in
\* PLAN_INTERVALS[plan]; for a plan that is no registered tier it raises for
\* every interval.
C9_CheckInterval ==
    gres.fn = "check_interval" =>
        /\ ~Raises <=> (/\ gres.plan \in DOMAIN PLAN_INTERVALS
                        /\ gres.interval.ty = "str"
                        /\ gres.interval.s \in PLAN_INTERVALS[gres.plan])
        /\ gres.plan \notin Plan => Raises
        /\ Raises => gres.exc = Exc("ValueError", "interval")

C9_Witness ==
    /\ gres.fn = "check_interval"
    /\ gres.plan = "free"
    /\ gres.interval = Str("h4")
    /\ Raises

\* C10: check_params raises exactly when some name in ACTION_PARAMS[action] is
\* absent from the keyword arguments or maps to None, the empty string or 0;
\* an action without a list never raises, whatever the arguments.
C10_CheckParams ==
    gres.fn = "check_params" =>
        /\ Raises <=> (/\ gres.action \in DOMAIN ACTION_PARAMS
                       /\ \E j \in 1..Len(ACTION_PARAMS[gres.action]) :
                            gres.kwargs[ACTION_PARAMS[gres.action][j]]
                                \in {Absent, None, Str(""), Num(0)})
        /\ Raises => gres.exc = Exc("ValueError", "params")

C10_Witness ==
    /\ gres.fn = "check_params"
    /\ gres.action = "pair"
    /\ gres.kwargs["exchange"] = Str("BTC")
    /\ gres.kwargs["pair"] = Num(0)
    /\ gres.kwargs["symbol"] = Absent
    /\ Raises

-----------------------------------------------------------------------------
(* More properties of CoinGlassClient.request, checked under ClientSpec.   *)

\* The request statement the invocation is in, while it is known.
InRequest == rest # << >> /\ Head(rest).op = "request"

\* C11: on every HTTP attempt the query parameters handed to the transport
\* hold no key whose value in the caller's bag is None, and hold every key
\* whose value is not None (falsy ones included) with that value unchanged.
C11_NullsNeverSent ==
    (InRequest /\ Head(rest).given) =>
        /\ Len(reqs) = attempts
        /\ \A i \in 1..Len(reqs) : \A k \in Keys :
              LET v == Head(rest).bag[k]
              IN  /\ v = None => reqs[i].params[k] = Absent
                  /\ v = Absent => reqs[i].params[k] = Absent
                  /\ v \notin {None, Absent} => reqs[i].params[k] = v

C11_Witness ==
    /\ pc = "inflight"
    /\ attempts = 2
    /\ Head(rest).bag["symbol"] = Str("")
    /\ Head(rest).bag["exchange"] = None
    /\ reqs[2].params["symbol"] = Str("")
    /\ reqs[2].params["exchange"] = Absent

\* A 2xx response whose envelope code is not the string "0".
AppErrorOutcome(o) ==
    o.t = "response" /\ o.status >= 200 /\ o.status <= 299 /\ o.code # Str("0")

\* A 2xx response whose envelope code is the string "0".
SuccessOutcome(o) ==
    o.t = "response" /\ o.status >= 200 /\ o.status <= 299 /\ o.code = Str("0")

\* C12: a 2xx response whose code is not "0" ends the invocation with APIError
\* carrying the upstream msg ('Unknown error' when the envelope has no msg);
\* no data is returned, the response is the last attempt and no backoff
\* follows it, so that it is the only attempt when it answers the first one.
C12_AppErrorNotRetried ==
    \A i \in 1..Len(outs) :
        AppErrorOutcome(outs[i]) =>
            /\ i = Len(outs)
            /\ pc = "done"
            /\ result.kind = "raise"
            /\ result.exc.exc = "APIError"
            /\ result.exc.why = (CASE outs[i].msg = Absent -> "Unknown error"
                                   [] outs[i].msg = None -> "None"
                                   [] OTHER -> outs[i].msg.s)
            /\ result.env = NoEnv
            /\ attempts = i
            /\ Len(reqs) = i
            /\ Len(waits) = i - 1

C12_Witness ==
    /\ pc = "done"
    /\ Len(outs) = 1
    /\ outs[1].status = 200
    /\ outs[1].code = Str("1")
    /\ outs[1].msg = None
    /\ attempts = 1
    /\ result.exc = Exc("APIError", "None")

\* C13: when the answer is 2xx with code "0" and data X, request returns
\* exactly X, whatever X is: null, the empty list, a scalar, a nested object.
C13_DataRoundTrip ==
    (pc = "done" /\ outs # << >> /\ SuccessOutcome(outs[Len(outs)])) =>
        /\ result.kind = "return"
        /\ result.exc = NoExc
        /\ result.env.env = FALSE
        /\ result.env.data = outs[Len(outs)].data
        /\ result.env.data \in DataSamples

C13_Witness ==
    /\ pc = "done"
    /\ Len(outs) = 1
    /\ SuccessOutcome(outs[1])
    /\ outs[1].data = JNull
    /\ result.kind = "return"
    /\ result.env.data = JNull

\* The error kind request raises for a 2xx response with code "1".
GenericFailureKind == request_body(Response(200, Str("1"), Absent, JNull)).exc.exc

\* C14, as claimed: the error raised for HTTP 401 is of a kind of its own,
\* neither the rate-limit kind, nor the plan-limit kind, nor the kind raised
\* for a 2xx response with code other than "0".
C14_AuthKindDistinct ==
    (pc = "done" /\ outs # << >> /\ outs[Len(outs)].status = 401) =>
        /\ result.kind = "raise"
        /\ result.exc.exc \notin {"RateLimitError", "PlanLimitError", GenericFailureKind}

\* C18: a bag that is empty or holds only None values makes request hand the
\* transport the same arguments as a call without params: the params
\* argument is None (never an empty mapping), the rest is as always.
C18_EmptyBagAsOmitted ==
    (InRequest /\ \A k \in Keys : Head(rest).bag[k] \in {None, Absent}) =>
        \A i \in 1..Len(reqs) :
            reqs[i] = [method |-> "GET",
                       base |-> session.base_url,
                       endpoint |-> Head(rest).endpoint,
                       some |-> FALSE,
                       params |-> EmptyBag,
                       key |-> session.api_key,
                       timeout |-> 30]

C18_Witness ==
    /\ pc = "inflight"
    /\ Head(rest).given
    /\ Head(rest).bag["symbol"] = None
    /\ Head(rest).bag["exchange"] = None
    /\ reqs[1].some = FALSE
    /\ reqs[1].params = EmptyBag

-----------------------------------------------------------------------------
(* The envelope of a tool invocation, checked under Spec.                  *)

\* The tools that never call client.request.
LocalTools == {"coinglass_search", "coinglass_config"}

LastOut == outs[Len(outs)]

ReturnedEnvelope == pc = "done" /\ result.kind = "return" /\ result.env.env

\* C15, as claimed: a failed gate check or a failed request leaves no success
\* envelope, and every success envelope comes after the invocation's request
\* returned data from a 2xx response with code "0".
C15_EnvelopeOnlyAfterRequest ==
    /\ (InCall /\ FailingChecks # {}) => (result.kind = "raise" /\ result.env = NoEnv)
    /\ (InCall /\ outs # << >> /\ ~SuccessOutcome(LastOut)) => result.env = NoEnv
    /\ ReturnedEnvelope => (outs # << >> /\ SuccessOutcome(LastOut))

\* C15, amended: a failed gate check or a failed request ends the invocation
\* with the error and no envelope; a tool that calls client.request returns
\* its success envelope only after the request returned data from a 2xx
\* response with code "0"; coinglass_search and coinglass_config issue no
\* request and return an envelope built from local tables.
C15_AllOrNothing ==
    /\ (InCall /\ FailingChecks # {}) =>
            (pc = "done" /\ result.kind = "raise" /\ result.env = NoEnv)
    /\ (InCall /\ outs # << >> /\ ~SuccessOutcome(LastOut)) =>
            (result.env = NoEnv /\ (pc = "done" => result.kind = "raise"))
    /\ pc # "done" => result.env = NoEnv
    /\ (pc = "done" /\ result.kind = "return") =>
            /\ result.env.env /\ result.env.success
            /\ call.tool \in LocalTools => (attempts = 0 /\ outs = << >>)
            /\ call.tool \notin LocalTools =>
                    (outs # << >> /\ SuccessOutcome(LastOut) /\ payload = LastOut.data)

C15_Witness ==
    /\ pc = "done"
    /\ call.tool = "coinglass_liq_orders"
    /\ attempts = 3
    /\ outs[3].status = 500
    /\ result.kind = "raise"
    /\ result.env = NoEnv

\* The action name a tool without an action argument passes to ok().
ExpectedAction ==
    CASE call.tool = "coinglass_price_history" -> "price_history"
      [] call.tool = "coinglass_liq_orders" -> "orders"
      [] call.tool = "coinglass_bitfinex_longs_shorts" -> "bitfinex_margin"
      [] call.tool = "coinglass_search" -> "search"
      [] OTHER -> call.action

\* The keyword arguments of the return the invocation ended with.
ReturnKwargs == MetaValues(Head(rest).meta, result.env.data, plan)

MetadataFiltered ==
    \A k \in MetaKeys :
        /\ result.env.metadata[k] # None
        /\ ReturnKwargs[k] \in {None, Absent} => result.env.metadata[k] = Absent
        /\ ReturnKwargs[k] \notin {None, Absent} => result.env.metadata[k] = ReturnKwargs[k]

\* C16, as claimed: every success envelope has success = true, the name of
\* the sub-operation as action, the payload client.request returned as data,
\* and a metadata map with every null entry omitted and every other present.
C16_EnvelopeOfPayload ==
    ReturnedEnvelope =>
        /\ result.env.success
        /\ result.env.action = ExpectedAction
        /\ attempts > 0
        /\ result.env.data = payload
        /\ MetadataFiltered

IsObject(d) == d.j \in {"dict", "nested"}

\* The data of the envelope, from the invocation and the payload.
ExpectedData ==
    CASE call.tool = "coinglass_market_info" /\ call.action = "exchanges" ->
            IF IsObject(payload) THEN JList(payload.size) ELSE JList(0)
      [] call.tool = "coinglass_market_info" /\ call.action = "pairs"
            /\ Truthy(call.args.exchange) /\ IsObject(payload) -> JDict(1)
      [] call.tool = "coinglass_search" -> JDict(2)
      [] call.tool = "coinglass_config" -> ConfigData(call.action, plan)
      [] OTHER -> payload

\* C16, amended: every success envelope has success = true, the name of the
\* sub-operation as action and a metadata map with every null entry omitted
\* and every other present; data is the payload client.request returned,
\* except that coinglass_market_info gives the list of the payload's keys for
\* 'exchanges' (the empty list when the payload is no object) and the one
\* entry of the given exchange for 'pairs' with an exchange, and that
\* coinglass_search and coinglass_config, which call no client, give a dict
\* they build themselves.
C16_Envelope ==
    ReturnedEnvelope =>
        /\ result.env.success
        /\ result.env.action = ExpectedAction
        /\ result.env.data = ExpectedData
        /\ call.tool \notin LocalTools => attempts > 0
        /\ MetadataFiltered

C16_Witness ==
    /\ ReturnedEnvelope
    /\ call.tool = "coinglass_liq_orders"
    /\ call.args.symbol = None
    /\ call.args.side = Str("long")
    /\ result.env.action = "orders"
    /\ result.env.data = payload
    /\ payload = JList(1)
    /\ result.env.metadata["symbol"] = Absent
    /\ result.env.metadata["side"] = Str("long")

-----------------------------------------------------------------------------
(* Tasks on the shared client, checked under TaskSpec.                     *)

\* The sleeps before attempts 2..n+1 of one invocation.
Backoffs(n) == [i \in 1..n |-> 2 ^ (i - 1)]

\* How one invocation stands, told from the outcomes of its own attempts
\* (and from whether its own caller cancelled it) and from nothing else.
OwnOutcomesDecide(x) ==
    LET k == Len(x.outs)
        last == x.outs[k]
    IN  /\ k <= 3
        /\ x.attempts <= 3
        /\ Len(x.reqs) = x.attempts
        /\ \A i \in 1..Len(x.reqs) : x.reqs[i].endpoint = x.ep
        /\ \A i \in 1..(k - 1) : RetryableOutcome(x.outs[i])
        /\ x.pc = "idle" => x = NoTask
        /\ x.pc = "inflight" =>
                /\ x.attempts = k + 1
                /\ k > 0 => RetryableOutcome(last)
                /\ x.waits = Backoffs(k)
                /\ x.result = NoResult
        /\ x.pc = "backoff" =>
                /\ x.attempts = k
                /\ k \in 1..2
                /\ RetryableOutcome(last)
                /\ x.waits = Backoffs(k)
                /\ x.result = NoResult
        /\ (x.pc = "done" /\ ~x.cancelled) =>
                /\ x.attempts = k
                /\ k >= 1
                /\ x.waits = Backoffs(k - 1)
                /\ SuccessOutcome(last) =>
                        (x.result.kind = "return" /\ x.result.env.data = last.data)
                /\ (last.t = "response" /\ last.status = 429) =>
                        x.result.exc = Exc("RateLimitError", "429")
                /\ RetryableOutcome(last) => (k = 3 /\ x.result.kind = "raise")
        /\ (x.pc = "done" /\ x.cancelled) =>
                /\ x.result.exc = Exc("CancelledError", "cancel")
                /\ x.attempts \in {k, k + 1}
                /\ k = x.attempts => (k \in 1..2 /\ RetryableOutcome(last))

\* C17: with several invocations in flight on the shared client, each one's
\* attempt count, backoff and result follow from the outcomes of its own
\* attempts alone, and a step of one invocation (an answer, a retry, the
\* exhaustion of its attempts, its cancellation) changes no other invocation.
C17_InvocationsIndependent ==
    /\ [](\A t \in Tasks : OwnOutcomesDecide(tasks[t]))
    /\ [][\A t \in Tasks : tasks'[t] # tasks[t] =>
                \A u \in Tasks \ {t} : tasks'[u] = tasks[u]]_vars

C17_Witness ==
    /\ tasks[1].pc = "done"
    /\ tasks[1].attempts = 3
    /\ tasks[1].result.exc.exc = "RetryError"
    /\ tasks[2].pc = "done"
    /\ tasks[2].attempts = 2
    /\ tasks[2].outs[1].status = 500
    /\ tasks[2].result.kind = "return"

-----------------------------------------------------------------------------
(* The session, checked under Spec.                                        *)

\* C19: every HTTP attempt is a GET to base_url + endpoint of the call, with
\* the session's API key as CG-API-KEY and timeout 30, whatever the arguments
\* of the invocation; once the lifespan has set the session up, no step
\* changes its api_key or base_url.
C19_FixedRequestFrame ==
    /\ [](\A i \in 1..Len(reqs) :
            /\ reqs[i].method = "GET"
            /\ reqs[i].base = session.base_url
            /\ reqs[i].base = BASE_URL
            /\ InRequest => reqs[i].endpoint = Head(rest).endpoint
            /\ reqs[i].key = session.api_key
            /\ reqs[i].key = "test-api-key"
            /\ reqs[i].timeout = 30)
    /\ [][pc # "start" => session' = session]_vars

C19_Witness ==
    /\ pc = "inflight"
    /\ call.tool = "coinglass_liq_orders"
    /\ attempts = 2
    /\ reqs[2].endpoint = "/api/futures/liquidation/order"
    /\ reqs[2].key = "test-api-key"
    /\ reqs[2].timeout = 30
    /\ reqs[2].params["limit"] = Num(50)

\* C20: with an empty API key the lifespan raises before it yields: there is
\* no client and no plan in any context, no tool invocation starts afterwards,
\* no request carries an empty key, and no invocation ends with the missing
\* key as its error.
C20_NoKeyNoService ==
    /\ [](/\ pc = "failed" =>
                /\ session = NoSession
                /\ plan = ""
                /\ call = NoCall
                /\ attempts = 0
                /\ reqs = << >>
                /\ result.exc = Exc("ValueError", "api_key")
          /\ pc \notin {"start", "failed"} => session.api_key # ""
          /\ \A i \in 1..Len(reqs) : reqs[i].key # ""
          /\ pc = "done" => result.exc # Exc("ValueError", "api_key"))
    /\ [][pc = "failed" => pc' = "failed"]_vars

C20_Witness ==
    /\ pc = "failed"
    /\ session = NoSession
    /\ reqs = << >>
    /\ result.exc = Exc("ValueError", "api_key")

-----------------------------------------------------------------------------
(* What coinglass_config reports against what the gate enforces, checked   *)
(* under Spec.                                                             *)

\* Interval names an invocation can ask about: the ten of the tables and two
\* that are in none.
IntervalNames == AllIntervals \cup {"h6", "x9"}

\* C21: for every plan of the session, coinglass_config(action='intervals')
\* reports as your_plan exactly the intervals check_interval accepts for
\* that plan (for hobbyist h4 and not m5), and every interval of your_plan
\* is in the reported all.
C21_ConfigMatchesGate ==
    (ReturnedEnvelope /\ call.tool = "coinglass_config" /\ call.action = "intervals") =>
        /\ result.env.data.your_plan =
                {i \in IntervalNames : check_interval(plan, Str(i)) = NoExc}
        /\ result.env.data.your_plan \subseteq result.env.data.all
        /\ plan = "hobbyist" =>
                ("h4" \in result.env.data.your_plan /\ "m5" \notin result.env.data.your_plan)

C21_Witness ==
    /\ ReturnedEnvelope
    /\ call.tool = "coinglass_config"
    /\ call.action = "intervals"
    /\ plan = "hobbyist"
    /\ result.env.data.your_plan = {"h4", "h8", "h12", "d1", "w1"}
    /\ "m5" \in result.env.data.all

-----------------------------------------------------------------------------
(* The retry schedule of client.request, checked under ClientSpec (C27     *)
(* under ClientFairSpec).                                                  *)

MaxAttemptNumber == 6

\* C22: the waits between attempts are 1 before attempt 2 and 2 before
\* attempt 3; there are never more than two, they never decrease, and the
\* wait after any attempt number is at least 1, at most 10 and no shorter
\* than the one before it.
C22_ExponentialBackoff ==
    /\ Len(waits) <= 2
    /\ (Len(waits) >= 1 => waits[1] = 1)
    /\ (Len(waits) >= 2 => waits[2] = 2)
    /\ (pc = "inflight" => Len(waits) = attempts - 1)
    /\ (pc = "backoff" => Len(waits) = attempts)
    /\ \A i \in 1..Len(waits) : waits[i] <= 10 /\ (i > 1 => waits[i - 1] <= waits[i])
    /\ \A n \in 1..MaxAttemptNumber :
            /\ 1 <= wait_exponential(n)
            /\ wait_exponential(n) <= 10
            /\ wait_exponential(n) <= wait_exponential(n + 1)

C22_Witness ==
    /\ pc = "inflight"
    /\ attempts = 3
    /\ waits = <<1, 2>>
    /\ wait_exponential(MaxAttemptNumber) = 10

\* C23: within one invocation at most one attempt is in flight, and a further
\* attempt starts only from the backoff sleep that followed the retryable
\* failure of the attempt before it, as the very next attempt.
C23_AttemptsSequential ==
    /\ [](/\ Len(reqs) = attempts
          /\ Len(reqs) - Len(outs) \in {0, 1}
          /\ ((pc = "inflight") <=> (Len(reqs) = Len(outs) + 1))
          /\ (pc = "backoff" => (Len(outs) = attempts /\ Len(waits) = attempts)))
    /\ [][(attempts >= 1 /\ attempts' > attempts) =>
            /\ pc = "backoff"
            /\ pc' = "inflight"
            /\ attempts' = attempts + 1
            /\ Len(outs) = attempts
            /\ RetryableOutcome(outs[attempts])
            /\ Len(waits) = attempts
            /\ outs' = outs
            /\ waits' = waits]_vars

C23_Witness ==
    /\ pc = "inflight"
    /\ attempts = 3
    /\ Len(reqs) = 3
    /\ Len(outs) = 2
    /\ outs[2].t = "TimeoutException"

\* An attempt that failed and is not retried.
NonRetryableFailure(o) == ~SuccessOutcome(o) /\ ~RetryableOutcome(o)

\* C24: an attempt is followed by another only if it ended with a timeout, a
\* connection error or a response with 500 <= status < 600; an attempt that
\* failed in any other way is the last one (the only one when it is the
\* first), and the caller gets HTTPStatusError with the status for a non-2xx
\* status other than 401, 403 and 429, and the exception itself for another
\* transport exception.
C24_OnlyRetryableRepeats ==
    /\ \A i \in 1..Len(outs) : i < attempts => RetryableOutcome(outs[i])
    /\ \A i \in 1..Len(outs) : NonRetryableFailure(outs[i]) =>
            /\ i = attempts
            /\ pc = "done"
            /\ result.kind = "raise"
            /\ (outs[i].t # "response" => result.exc = Exc(outs[i].t, "http.get"))
            /\ (outs[i].t = "response" /\ ~(200 <= outs[i].status /\ outs[i].status < 300)
                    /\ outs[i].status \notin {401, 403, 429}) =>
                    result.exc = HTTPStatusError(outs[i].status)
    /\ (Len(outs) >= 1 /\ NonRetryableFailure(outs[1])) =>
            (attempts = 1 /\ Len(reqs) = 1 /\ waits = << >>)

C24_Witness ==
    /\ pc = "done"
    /\ attempts = 1
    /\ outs[1].status = 404
    /\ result.exc = HTTPStatusError(404)

\* The exception the request body raises for a failed attempt.
ExpectedFailure(o) ==
    CASE o.t # "response" -> Exc(o.t, "http.get")
      [] o.status \in {429, 403, 401} -> TypedError(o.status)
      [] ~(200 <= o.status /\ o.status < 300) -> HTTPStatusError(o.status)
      [] OTHER -> Exc("APIError", FormatMsg(o.msg))

\* C25: a failure that is not retryable on attempt 2 or 3 ends the invocation
\* at once: no further attempt and no further wait, and the caller gets that
\* attempt's own error, not a wrapping one (RateLimitError after exactly two
\* attempts for a 5xx followed by a 429).
C25_LateFailureEndsRetry ==
    \A k \in 2..Len(outs) : NonRetryableFailure(outs[k]) =>
        /\ pc = "done"
        /\ attempts = k
        /\ Len(reqs) = k
        /\ Len(outs) = k
        /\ Len(waits) = k - 1
        /\ result.kind = "raise"
        /\ result.exc = ExpectedFailure(outs[k])
        /\ result.exc.exc # "RetryError"

C25_Witness ==
    /\ pc = "done"
    /\ attempts = 2
    /\ outs[1].status = 500
    /\ outs[2].status = 429
    /\ result.exc = Exc("RateLimitError", "429")

\* C27: when every attempt in flight ends and every backoff sleep returns,
\* every invocation of request ends, with data or an error, after at most 3
\* attempts and at most 2 waits.
C27_RequestTerminates ==
    /\ [](attempts <= 3 /\ Len(waits) <= 2)
    /\ (pc \in {"inflight", "backoff"}) ~> (pc = "done")

C27_Witness ==
    /\ pc = "done"
    /\ attempts = 3
    /\ Len(waits) = 2
    /\ outs[3].t = "ConnectError"
    /\ result.kind = "raise"

-----------------------------------------------------------------------------
(* The order of the gate checks in a tool body, checked under Spec.        *)

CheckRank(op) ==
    CASE op = "check_plan" -> 1
      [] op = "check_interval" -> 2
      [] op = "check_params" -> 3
      [] OTHER -> 0

\* The positions of the gate checks in the body of the invocation.
GateChecks == {i \in 1..Len(TheBody) : CheckRank(TheBody[i].op) > 0}

FailingGateChecks == GateChecks \cap FailingChecks

\* C26: in every tool body the gate checks stand in the order plan, interval,
\* parameters, each at most once and all before the request; when several of
\* them fail, the invocation ends with the error of the first in that order,
\* so that a disallowed interval together with a missing parameter gives
\* the interval error.
C26_GateOrder ==
    InCall =>
        /\ \A i, j \in GateChecks :
                i < j => CheckRank(TheBody[i].op) < CheckRank(TheBody[j].op)
        /\ \A i \in GateChecks, j \in 1..Len(TheBody) :
                TheBody[j].op = "request" => i < j
        /\ (FailingGateChecks # {} /\ FailingChecks \subseteq GateChecks) =>
                /\ pc = "done"
                /\ result.kind = "raise"
                /\ \E i \in FailingGateChecks :
                        /\ \A j \in FailingGateChecks :
                                CheckRank(TheBody[i].op) <= CheckRank(TheBody[j].op)
                        /\ result.exc = GateFailure(TheBody[i])
        /\ (\E i, j \in FailingGateChecks :
                TheBody[i].op = "check_interval" /\ TheBody[j].op = "check_params") =>
                result.exc = Exc("ValueError", "interval")

C26_Witness ==
    /\ pc = "done"
    /\ call.tool \in {"coinglass_oi_history", "coinglass_funding_history"}
    /\ Cardinality(FailingGateChecks) = 2
    /\ plan = "hobbyist"
    /\ call.args.interval = Str("m5")
    /\ result.exc = Exc("ValueError", "interval")

-----------------------------------------------------------------------------
(* The gate and plans, checked under GateSpec.                             *)

\* C28: a plan that is none of the five tiers is ranked lowest: check_plan
\* rejects it for every action that has a minimum plan, as it does hobbyist,
\* and accepts it for every action that has none; check_interval rejects it
\* for every interval, the null one included.
C28_UnknownPlanLowest ==
    (gres.fn \in {"check_plan", "check_interval"} /\ gres.plan \notin Plan) =>
        /\ gres.fn = "check_plan" =>
                /\ Raises <=> gres.action \in DOMAIN ACTION_PLAN
                /\ gres.action \in DOMAIN ACTION_PLAN =>
                        PLAN_HIERARCHY["hobbyist"] < PLAN_HIERARCHY[ACTION_PLAN[gres.action]]
        /\ gres.fn = "check_interval" => gres.exc = Exc("ValueError", "interval")

C28_Witness ==
    /\ gres.fn = "check_plan"
    /\ gres.plan = "free"
    /\ gres.action = "orders"
    /\ gres.exc = Exc("ValueError", "plan")

\* C30: what the gate accepts for a tier it accepts for every higher tier:
\* an interval check_interval accepts for plan p it accepts for every plan
\* ranked above p, and so for an action and check_plan.
C30_GateMonotone ==
    (gres.plan \in Plan /\ ~Raises) =>
        \A q \in Plan : PLAN_HIERARCHY[gres.plan] < PLAN_HIERARCHY[q] =>
            /\ gres.fn = "check_interval" => check_interval(q, gres.interval) = NoExc
            /\ gres.fn = "check_plan" => check_plan(q, gres.action) = NoExc

C30_Witness ==
    /\ gres.fn = "check_interval"
    /\ gres.plan = "startup"
    /\ gres.interval = Str("m30")
    /\ ~Raises
    /\ check_interval("hobbyist", Str("m30")) # NoExc

-----------------------------------------------------------------------------
(* Falsy arguments on the way to the upstream, checked under Spec.         *)

\* A value that is given and not null, and that Python counts as false.
Falsy(v) == v \notin {None, Absent} /\ ~Truthy(v)

\* C29: every attempt of a tool's request carries each parameter whose value
\* is falsy but not null ('' or 0) with that value, although check_params
\* counts such a value of a required parameter as missing; so a tool that
\* calls no check_params sends an empty string upstream.
C29_FalsySent ==
    (InRequest /\ Head(rest).given) =>
        \A k \in Keys : Falsy(Head(rest).bag[k]) =>
            /\ \A i \in 1..Len(reqs) :
                    reqs[i].some /\ reqs[i].params[k] = Head(rest).bag[k]
            /\ \A a \in DOMAIN ACTION_PARAMS :
                    check_params(a, [EmptyBag EXCEPT ![ACTION_PARAMS[a][1]] = Head(rest).bag[k]])
                        = Exc("ValueError", "params")

C29_Witness ==
    /\ pc = "inflight"
    /\ call.tool = "coinglass_price_history"
    /\ \A i \in 1..Len(TheBody) : TheBody[i].op # "check_params"
    /\ call.args.exchange = Str("")
    /\ reqs[1].params["exchange"] = Str("")

====
